---- MODULE Spec2Model ----
(***************************************************************************)
(* A model of whisper: the browser-side cryptography (utils/crypto.ts),    *)
(* the Auth and App components, and the Express / socket.io relay.         *)
(*                                                                         *)
(* Binary data (ArrayBuffer, Uint8Array) is a sequence of bytes 0..255.    *)
(* A JavaScript string is a sequence of UTF-16 code units 0..65535.        *)
(* A base64 text is a sequence of symbols: 0..63 are the alphabet          *)
(* A-Z a-z 0-9 + /, PadSym is '=', WsSym an ASCII whitespace character and *)
(* BadSym any other character.                                             *)
(*                                                                         *)
(* The Web Crypto primitives are modelled at a reduced scale: the curve    *)
(* P-256 by the multiplicative group modulo GroupP generated by GroupG,    *)
(* AES-GCM by an additive stream cipher with an appended tag over the key, *)
(* the iv and the ciphertext body (encrypt-then-authenticate, arithmetic   *)
(* modulo 256).                                                            *)
(***************************************************************************)
EXTENDS Integers, Sequences, FiniteSets, TLC

(***************************************************************************)
(* Results of operations that can throw.                                   *)
(***************************************************************************)
Ok(v) == [ok |-> TRUE, val |-> v]
Fail(dflt) == [ok |-> FALSE, val |-> dflt]

\* const x = await v; F(x): v is evaluated once and its value is then used.
Bind(v, F(_)) == CHOOSE r \in { F(x) : x \in { v } } : TRUE

(***************************************************************************)
(* btoa / atob (the browser's base64) and the two helpers of crypto.ts.    *)
(***************************************************************************)
PadSym == 64
WsSym == 65
BadSym == 66

RECURSIVE btoa(_)
btoa(bin) ==
  IF Len(bin) = 0 THEN <<>>
  ELSE IF Len(bin) = 1
    THEN << bin[1] \div 4, (bin[1] % 4) * 16, PadSym, PadSym >>
  ELSE IF Len(bin) = 2
    THEN << bin[1] \div 4, (bin[1] % 4) * 16 + (bin[2] \div 16),
            (bin[2] % 16) * 4, PadSym >>
  ELSE << bin[1] \div 4, (bin[1] % 4) * 16 + (bin[2] \div 16),
          (bin[2] % 16) * 4 + (bin[3] \div 64), bin[3] % 64 >>
       \o btoa(SubSeq(bin, 4, Len(bin)))

RECURSIVE DecodeSextets(_)
DecodeSextets(d) ==
  IF Len(d) < 2 THEN <<>>
  ELSE IF Len(d) = 2
    THEN << d[1] * 4 + (d[2] \div 16) >>
  ELSE IF Len(d) = 3
    THEN << d[1] * 4 + (d[2] \div 16), (d[2] % 16) * 16 + (d[3] \div 4) >>
  ELSE << d[1] * 4 + (d[2] \div 16), (d[2] % 16) * 16 + (d[3] \div 4),
          (d[3] % 4) * 64 + d[4] >>
       \o DecodeSextets(SubSeq(d, 5, Len(d)))

\* The forgiving-base64 decode of window.atob: whitespace is removed, one or
\* two trailing '=' are removed when the length is a multiple of 4, a length
\* of 1 modulo 4 or any other character fails, leftover bits are discarded.
atob(data) ==
  LET noWs == SelectSeq(data, LAMBDA x : x # WsSym)
      n == Len(noWs)
      stripped ==
        IF n > 0 /\ n % 4 = 0 /\ noWs[n] = PadSym
          THEN IF noWs[n - 1] = PadSym THEN SubSeq(noWs, 1, n - 2)
                                       ELSE SubSeq(noWs, 1, n - 1)
          ELSE noWs
  IN IF Len(stripped) % 4 = 1 \/ \E i \in 1..Len(stripped) : stripped[i] > 63
       THEN Fail(<<>>)
       ELSE Ok(DecodeSextets(stripped))

\* The helper builds a binary string with String.fromCharCode per byte and
\* hands it to btoa.
arrayBufferToBase64(buffer) ==
  btoa([i \in 1..Len(buffer) |-> buffer[i]])

\* base64ToArrayBuffer filling an Int8Array read back without its sign bit.
base64ToArrayBufferSevenBits(base64) ==
  LET binary_string == atob(base64)
  IN IF binary_string.ok
       THEN Ok([i \in 1..Len(binary_string.val) |-> binary_string.val[i] % 128])
       ELSE Fail(<<>>)

\* The helper reads charCodeAt(i) of atob's binary string into a Uint8Array.
base64ToArrayBuffer(base64) ==
  LET binary_string == atob(base64)
  IN IF binary_string.ok
       THEN Ok([i \in 1..Len(binary_string.val) |-> binary_string.val[i] % 256])
       ELSE Fail(<<>>)

(***************************************************************************)
(* TextEncoder.encode and TextDecoder.decode (UTF-8).                      *)
(***************************************************************************)
IsHigh(u) == u >= 55296 /\ u <= 56319
IsLow(u) == u >= 56320 /\ u <= 57343
IsCont(b) == b >= 128 /\ b <= 191

EncodeScalar(cp) ==
  IF cp < 128 THEN << cp >>
  ELSE IF cp < 2048 THEN << 192 + (cp \div 64), 128 + (cp % 64) >>
  ELSE IF cp < 65536
    THEN << 224 + (cp \div 4096), 128 + ((cp \div 64) % 64), 128 + (cp % 64) >>
  ELSE << 240 + (cp \div 262144), 128 + ((cp \div 4096) % 64),
          128 + ((cp \div 64) % 64), 128 + (cp % 64) >>

\* encode() converts the string to scalar values first: a surrogate pair is
\* one scalar, an unpaired surrogate becomes U+FFFD.
RECURSIVE TextEncode(_)
TextEncode(s) ==
  IF Len(s) = 0 THEN <<>>
  ELSE IF IsHigh(s[1]) /\ Len(s) >= 2 /\ IsLow(s[2])
    THEN EncodeScalar(65536 + (s[1] - 55296) * 1024 + (s[2] - 56320))
         \o TextEncode(SubSeq(s, 3, Len(s)))
  ELSE IF IsHigh(s[1]) \/ IsLow(s[1])
    THEN EncodeScalar(65533) \o TextEncode(SubSeq(s, 2, Len(s)))
  ELSE EncodeScalar(s[1]) \o TextEncode(SubSeq(s, 2, Len(s)))

ScalarToUnits(cp) ==
  IF cp < 65536 THEN << cp >>
  ELSE << 55296 + ((cp - 65536) \div 1024), 56320 + ((cp - 65536) % 1024) >>

\* The number of bytes of the well-formed UTF-8 sequence at the head of b,
\* or 0 when the head is not one.
SeqLenAt(b) ==
  LET n == Len(b) IN
  IF b[1] < 128 THEN 1
  ELSE IF b[1] >= 194 /\ b[1] <= 223
    THEN IF n >= 2 /\ IsCont(b[2]) THEN 2 ELSE 0
  ELSE IF b[1] >= 224 /\ b[1] <= 239
    THEN IF /\ n >= 3 /\ IsCont(b[2]) /\ IsCont(b[3])
            /\ (b[1] = 224 => b[2] >= 160)
            /\ (b[1] = 237 => b[2] <= 159)
           THEN 3 ELSE 0
  ELSE IF b[1] >= 240 /\ b[1] <= 244
    THEN IF /\ n >= 4 /\ IsCont(b[2]) /\ IsCont(b[3]) /\ IsCont(b[4])
            /\ (b[1] = 240 => b[2] >= 144)
            /\ (b[1] = 244 => b[2] <= 143)
           THEN 4 ELSE 0
  ELSE 0

ScalarAt(b, k) ==
  IF k = 1 THEN b[1]
  ELSE IF k = 2 THEN (b[1] - 192) * 64 + (b[2] - 128)
  ELSE IF k = 3 THEN (b[1] - 224) * 4096 + (b[2] - 128) * 64 + (b[3] - 128)
  ELSE (b[1] - 240) * 262144 + (b[2] - 128) * 4096 + (b[3] - 128) * 64
       + (b[4] - 128)

\* An ill-formed head yields U+FFFD and decoding resumes at the next byte.
RECURSIVE DecodeUtf8(_)
DecodeUtf8(b) ==
  IF Len(b) = 0 THEN <<>>
  ELSE LET k == SeqLenAt(b) IN
       IF k = 0 THEN << 65533 >> \o DecodeUtf8(SubSeq(b, 2, Len(b)))
       ELSE ScalarToUnits(ScalarAt(b, k)) \o DecodeUtf8(SubSeq(b, k + 1, Len(b)))

\* new TextDecoder() has ignoreBOM = false: a leading EF BB BF is consumed and
\* does not appear in the result.
TextDecode(b) ==
  IF Len(b) >= 3 /\ b[1] = 239 /\ b[2] = 187 /\ b[3] = 191
    THEN DecodeUtf8(SubSeq(b, 4, Len(b)))
    ELSE DecodeUtf8(b)

(***************************************************************************)
(* Bounds of the model.                                                    *)
(***************************************************************************)
\* Longest plaintext typed, in UTF-16 code units.
MaxLen == 2
\* Number of distinct outcomes of one crypto.getRandomValues call.
NRand == 2

(***************************************************************************)
(* Web Crypto at reduced scale.  A CryptoKey is [type, name, v].           *)
(***************************************************************************)
GroupP == 23
GroupG == 5
IvLen == 12
TagLen == 16

RECURSIVE ModExp(_, _, _)
ModExp(b, e, m) == IF e = 0 THEN 1 % m ELSE (b * ModExp(b, e - 1, m)) % m

\* The outcomes of crypto.getRandomValues(new Uint8Array(n)) that are explored.
RandomValueAt(n, r) == [i \in 1..n |-> (r * 85 + i) % 256]

RandomValues(n) == { RandomValueAt(n, r) : r \in 0..(NRand - 1) }

\* The private scalars generateKey may draw.
RandomScalars == { 3, 7 }

CryptoKey(t, n, x) == [type |-> t, name |-> n, v |-> x]
NoKey == CryptoKey("none", "none", 0)

\* subtle.generateKey: a key pair on the curve from a drawn private scalar d.
GenerateKey(alg, d) ==
  [privateKey |-> CryptoKey("private", alg, d),
   publicKey  |-> CryptoKey("public", alg, ModExp(GroupG, d, GroupP))]

\* subtle.exportKey('raw', publicKey) and subtle.exportKey('pkcs8', privateKey).
ExportRaw(key) == << 4, key.v >>
ExportPkcs8(key) == << 48, key.v >>

\* subtle.importKey: the bytes are parsed and the point or scalar validated.
ImportRaw(buffer, alg) ==
  IF Len(buffer) = 2 /\ buffer[1] = 4 /\ buffer[2] >= 1 /\ buffer[2] <= GroupP - 1
    THEN Ok(CryptoKey("public", alg, buffer[2]))
    ELSE Fail(NoKey)

ImportPkcs8(buffer, alg) ==
  IF Len(buffer) = 2 /\ buffer[1] = 48 /\ buffer[2] >= 1 /\ buffer[2] <= GroupP - 2
    THEN Ok(CryptoKey("private", alg, buffer[2]))
    ELSE Fail(NoKey)

\* Sum of the first n elements of s, and the same with element i weighted
\* by 2i+1.
RECURSIVE Sum(_, _)
Sum(s, n) == IF n = 0 THEN 0 ELSE s[n] + Sum(s, n - 1)

RECURSIVE WSum(_, _)
WSum(s, n) == IF n = 0 THEN 0 ELSE s[n] * (2 * n + 1) + WSum(s, n - 1)

KeyStream(k, ivSum, i) == (k * 7 + ivSum + 13 * i) % 256

GcmTag(k, iv, body) ==
  LET all == iv \o body
      s1 == WSum(all, Len(all)) + 3 * Len(iv) + Len(body)
      s2 == Sum(all, Len(all))
  IN [j \in 1..TagLen |-> (k * (2 * j + 1) + s1 + 2 * j * s2) % 256]

\* subtle.encrypt({name: 'AES-GCM', iv}, key, data): the ciphertext body
\* followed by the authentication tag.
AesGcmEncrypt(key, iv, data) ==
  IF key.type # "secret" \/ key.name # "AES-GCM" THEN Fail(<<>>)
  ELSE LET ivSum == WSum(iv, Len(iv))
           body == [i \in 1..Len(data) |-> (data[i] + KeyStream(key.v, ivSum, i)) % 256]
       IN Ok(body \o GcmTag(key.v, iv, body))

\* subtle.decrypt({name: 'AES-GCM', iv}, key, data): fails (OperationError)
\* unless the tag matches the key, the iv and the body.
AesGcmDecrypt(key, iv, data) ==
  IF key.type # "secret" \/ key.name # "AES-GCM" \/ Len(data) < TagLen THEN Fail(<<>>)
  ELSE LET n == Len(data) - TagLen
           body == SubSeq(data, 1, n)
           tag == SubSeq(data, n + 1, Len(data))
           ivSum == WSum(iv, Len(iv))
       IN IF tag # GcmTag(key.v, iv, body) THEN Fail(<<>>)
          ELSE Ok([i \in 1..n |-> (body[i] + 256 - KeyStream(key.v, ivSum, i)) % 256])

(***************************************************************************)
(* utils/crypto.ts                                                         *)
(***************************************************************************)
generateKeyPair(d) == GenerateKey("ECDH", d)

exportPublicKey(key) == arrayBufferToBase64(ExportRaw(key))

exportPrivateKey(key) == arrayBufferToBase64(ExportPkcs8(key))

importPublicKey(base64Key) ==
  LET buffer == base64ToArrayBuffer(base64Key)
  IN IF buffer.ok THEN ImportRaw(buffer.val, "ECDH") ELSE Fail(NoKey)

importPrivateKey(base64Key) ==
  LET buffer == base64ToArrayBuffer(base64Key)
  IN IF buffer.ok THEN ImportPkcs8(buffer.val, "ECDH") ELSE Fail(NoKey)

\* deriveSharedSecret with the roles of the two keys exchanged in the
\* scalar multiplication.
deriveSharedSecretSwapped(privateKey, publicKey) ==
  IF \/ privateKey.type # "private" \/ privateKey.name # "ECDH"
     \/ publicKey.type # "public" \/ publicKey.name # "ECDH"
    THEN Fail(NoKey)
    ELSE Ok(CryptoKey("secret", "AES-GCM", ModExp(privateKey.v, publicKey.v, GroupP)))

\* deriveSharedSecret yielding one and the same AES key whatever the two keys
\* are.
deriveSharedSecretFixedKey(privateKey, publicKey) ==
  IF \/ privateKey.type # "private" \/ privateKey.name # "ECDH"
     \/ publicKey.type # "public" \/ publicKey.name # "ECDH"
    THEN Fail(NoKey)
    ELSE Ok(CryptoKey("secret", "AES-GCM", 1))

\* subtle.deriveKey({name: 'ECDH', public}, privateKey, AES-GCM 256): the
\* AES key is the shared point privateKey * public.
deriveSharedSecret(privateKey, publicKey) ==
  IF \/ privateKey.type # "private" \/ privateKey.name # "ECDH"
     \/ publicKey.type # "public" \/ publicKey.name # "ECDH"
    THEN Fail(NoKey)
    ELSE Ok(CryptoKey("secret", "AES-GCM", ModExp(publicKey.v, privateKey.v, GroupP)))

NoCipher == [ciphertext |-> <<>>, iv |-> <<>>]

\* encryptMessage with the getRandomValues call left out: new Uint8Array(12)
\* is twelve zero bytes.
encryptMessageZeroIv(sharedKey, plaintext, iv) ==
  LET zero == [i \in 1..IvLen |-> 0]
      encryptedBuffer == AesGcmEncrypt(sharedKey, zero, TextEncode(plaintext))
  IN IF encryptedBuffer.ok
       THEN Ok([ciphertext |-> arrayBufferToBase64(encryptedBuffer.val),
                iv |-> arrayBufferToBase64(zero)])
       ELSE Fail(NoCipher)

\* iv is the outcome of getRandomValues(new Uint8Array(12)) inside the call.
encryptMessage(sharedKey, plaintext, iv) ==
  LET encodedText == TextEncode(plaintext)
      encryptedBuffer == AesGcmEncrypt(sharedKey, iv, encodedText)
  IN IF encryptedBuffer.ok
       THEN Ok([ciphertext |-> arrayBufferToBase64(encryptedBuffer.val),
                iv |-> arrayBufferToBase64(iv)])
       ELSE Fail(NoCipher)

\* decryptMessage with the two base64 arguments exchanged.
decryptMessageSwapped(sharedKey, ciphertextBase64, ivBase64) ==
  LET ciphertextBuffer == base64ToArrayBuffer(ivBase64)
      ivBuffer == base64ToArrayBuffer(ciphertextBase64)
  IN IF ~ciphertextBuffer.ok \/ ~ivBuffer.ok THEN Fail(<<>>)
     ELSE LET decryptedBuffer == AesGcmDecrypt(sharedKey, ivBuffer.val, ciphertextBuffer.val)
          IN IF decryptedBuffer.ok THEN Ok(TextDecode(decryptedBuffer.val))
                                   ELSE Fail(<<>>)

\* decryptMessage under a cipher mode that does not authenticate: the body
\* is decrypted whatever the tag says.
decryptMessageNoAuth(sharedKey, ciphertextBase64, ivBase64) ==
  LET ciphertextBuffer == base64ToArrayBuffer(ciphertextBase64)
      ivBuffer == base64ToArrayBuffer(ivBase64)
  IN IF ~ciphertextBuffer.ok \/ ~ivBuffer.ok \/ Len(ciphertextBuffer.val) < TagLen
       THEN Fail(<<>>)
     ELSE LET n == Len(ciphertextBuffer.val) - TagLen
              ivSum == WSum(ivBuffer.val, Len(ivBuffer.val))
          IN Ok(TextDecode([i \in 1..n |->
                  (ciphertextBuffer.val[i] + 256 - KeyStream(sharedKey.v, ivSum, i)) % 256]))

decryptMessage(sharedKey, ciphertextBase64, ivBase64) ==
  LET ciphertextBuffer == base64ToArrayBuffer(ciphertextBase64)
      ivBuffer == base64ToArrayBuffer(ivBase64)
  IN IF ~ciphertextBuffer.ok \/ ~ivBuffer.ok THEN Fail(<<>>)
     ELSE LET decryptedBuffer == AesGcmDecrypt(sharedKey, ivBuffer.val, ciphertextBuffer.val)
          IN IF decryptedBuffer.ok THEN Ok(TextDecode(decryptedBuffer.val))
                                   ELSE Fail(<<>>)

(***************************************************************************)
(* The part of utils/crypto.ts that Auth.tsx imports: the signing key      *)
(* pair, the password-derived wrapping key, wrapping and unwrapping, and   *)
(* signing and verification.                                               *)
(***************************************************************************)
SaltLen == 16

generateEcdsaKeyPair(d) == GenerateKey("ECDSA", d)

\* A salted, deterministic derivation of an AES-GCM key from the password.
deriveKeyFromPassword(password, salt) ==
  LET pw == TextEncode(password)
  IN IF Len(pw) = 0 \/ Len(salt) # SaltLen THEN Fail(NoKey)
     ELSE Ok(CryptoKey("secret", "AES-GCM",
               (5 * WSum(pw, Len(pw)) + 3 * WSum(salt, Len(salt)) + Len(pw) + 1) % 256))

NoWrapped == [wrappedKeyBase64 |-> <<>>, ivBase64 |-> <<>>]

\* The private key is exported, then encrypted under the wrapping key and a
\* fresh 96-bit iv.
wrapPrivateKey(privateKey, wrapperKey, iv) ==
  LET encrypted == AesGcmEncrypt(wrapperKey, iv, ExportPkcs8(privateKey))
  IN IF privateKey.type = "private" /\ encrypted.ok
       THEN Ok([wrappedKeyBase64 |-> arrayBufferToBase64(encrypted.val),
                ivBase64 |-> arrayBufferToBase64(iv)])
       ELSE Fail(NoWrapped)

UnwrapAs(alg, wrappedKeyBase64, wrapperKey, ivBase64) ==
  Bind(base64ToArrayBuffer(wrappedKeyBase64), LAMBDA wrapped :
  Bind(base64ToArrayBuffer(ivBase64), LAMBDA iv :
    IF ~wrapped.ok \/ ~iv.ok THEN Fail(NoKey) ELSE
  Bind(AesGcmDecrypt(wrapperKey, iv.val, wrapped.val), LAMBDA exported :
    IF exported.ok THEN ImportPkcs8(exported.val, alg) ELSE Fail(NoKey))))

unwrapPrivateKey(wrappedKeyBase64, wrapperKey, ivBase64) ==
  UnwrapAs("ECDH", wrappedKeyBase64, wrapperKey, ivBase64)

unwrapEcdsaPrivateKey(wrappedKeyBase64, wrapperKey, ivBase64) ==
  UnwrapAs("ECDSA", wrappedKeyBase64, wrapperKey, ivBase64)

\* A signature over the ciphertext bytes, and its verification against the
\* public half of the signing key.
SignatureBytes(d, data) ==
  << (d * 11 + WSum(data, Len(data))) % 256, (d * 13 + Sum(data, Len(data)) + Len(data)) % 256 >>

signMessage(signingPrivateKey, ciphertextBase64) ==
  LET data == base64ToArrayBuffer(ciphertextBase64)
  IN IF signingPrivateKey.type = "private" /\ signingPrivateKey.name = "ECDSA" /\ data.ok
       THEN Ok(arrayBufferToBase64(SignatureBytes(signingPrivateKey.v, data.val)))
       ELSE Fail(<<>>)

\* subtle.importKey('raw', ..., ECDSA, ['verify']) on a published signing key.
importSigningPublicKey(base64Key) ==
  Bind(base64ToArrayBuffer(base64Key), LAMBDA buffer :
    IF buffer.ok THEN ImportRaw(buffer.val, "ECDSA") ELSE Fail(NoKey))

verifySignature(signingPublicKey, ciphertextBase64, signatureBase64) ==
  LET data == base64ToArrayBuffer(ciphertextBase64)
      sig == base64ToArrayBuffer(signatureBase64)
  IN /\ signingPublicKey.type = "public"
     /\ data.ok /\ sig.ok
     /\ \E d \in 1..(GroupP - 2) :
          /\ ModExp(GroupG, d, GroupP) = signingPublicKey.v
          /\ sig.val = SignatureBytes(d, data.val)

(***************************************************************************)
(* backend/src/routes/auth.ts: the REST handlers, as functions of the      *)
(* users and messages tables and the request.                              *)
(***************************************************************************)
NoRow ==
  [id |-> 0, username |-> "", passwordHash |-> [bcrypt |-> <<>>],
   publicKey |-> <<>>, encryptedPrivateKey |-> <<>>, keyIv |-> <<>>, keySalt |-> <<>>,
   publicSigningKey |-> <<>>, encryptedSigningPrivateKey |-> <<>>, signingKeyIv |-> <<>>]

NoToken == [userId |-> 0, username |-> ""]

\* db.select().from(users).where(eq(users.username, username)).limit(1)
SelectByUsername(users, username) ==
  SelectSeq(users, LAMBDA row : row.username = username)

\* db.select().from(users).where(eq(users.id, id)).limit(1)
SelectById(users, id) ==
  SelectSeq(users, LAMBDA row : row.id = id)

BcryptHash(password) == [bcrypt |-> password]
BcryptCompare(password, hash) == hash.bcrypt = password

\* POST /register
\* POST /register checking the fields of the key-agreement pair only.
RegisterHandlerOnePair(users, body) ==
  IF \/ body.username = "" \/ body.password = <<>> \/ body.publicKey = <<>>
     \/ body.encryptedPrivateKey = <<>> \/ body.keyIv = <<>> \/ body.keySalt = <<>>
    THEN [status |-> 400, users |-> users]
  ELSE IF Len(SelectByUsername(users, body.username)) > 0
    THEN [status |-> 409, users |-> users]
  ELSE [status |-> 201,
        users |-> Append(users,
          [id |-> Len(users) + 1,
           username |-> body.username,
           passwordHash |-> BcryptHash(body.password),
           publicKey |-> body.publicKey,
           encryptedPrivateKey |-> body.encryptedPrivateKey,
           keyIv |-> body.keyIv,
           keySalt |-> body.keySalt,
           publicSigningKey |-> body.publicSigningKey,
           encryptedSigningPrivateKey |-> body.encryptedSigningPrivateKey,
           signingKeyIv |-> body.signingKeyIv])]

RegisterHandler(users, body) ==
  IF \/ body.username = "" \/ body.password = <<>> \/ body.publicKey = <<>>
     \/ body.encryptedPrivateKey = <<>> \/ body.keyIv = <<>> \/ body.keySalt = <<>>
     \/ body.publicSigningKey = <<>> \/ body.encryptedSigningPrivateKey = <<>>
     \/ body.signingKeyIv = <<>>
    THEN [status |-> 400, users |-> users]
  ELSE IF Len(SelectByUsername(users, body.username)) > 0
    THEN [status |-> 409, users |-> users]
  ELSE [status |-> 201,
        users |-> Append(users,
          [id |-> Len(users) + 1,
           username |-> body.username,
           passwordHash |-> BcryptHash(body.password),
           publicKey |-> body.publicKey,
           encryptedPrivateKey |-> body.encryptedPrivateKey,
           keyIv |-> body.keyIv,
           keySalt |-> body.keySalt,
           publicSigningKey |-> body.publicSigningKey,
           encryptedSigningPrivateKey |-> body.encryptedSigningPrivateKey,
           signingKeyIv |-> body.signingKeyIv])]

\* The insert of POST /register on a table without the unique constraint.
registerInsertNoConstraint(users, body) ==
  [status |-> 201,
   users |-> Append(users, [RegisterHandler(<< >>, body).users[1] EXCEPT !.id = Len(users) + 1])]

\* POST /register from its insert on, for a request that passed the existence
\* check earlier: users.username is unique, so the insert is rejected when a
\* row with the username is there by now, and the catch answers 500.
registerInsert(users, body) ==
  IF Len(SelectByUsername(users, body.username)) > 0
    THEN [status |-> 500, users |-> users]
    ELSE RegisterHandler(users, body)

\* process.env.JWT_SECRET is set.
JwtSecretSet == TRUE

\* POST /login answering a wrong password with the user's record.
LoginHandlerLeaky(users, body) ==
  LET existingUser == SelectByUsername(users, body.username)
  IN IF body.username = "" \/ body.password = <<>>
       THEN [status |-> 400, token |-> NoToken, user |-> NoRow]
     ELSE IF Len(existingUser) = 0
       THEN [status |-> 401, token |-> NoToken, user |-> NoRow]
     ELSE IF ~BcryptCompare(body.password, existingUser[1].passwordHash)
       THEN [status |-> 401, token |-> NoToken,
             user |-> [existingUser[1] EXCEPT !.passwordHash = [bcrypt |-> <<>>]]]
     ELSE [status |-> 200,
           token |-> [userId |-> existingUser[1].id, username |-> existingUser[1].username],
           user |-> [existingUser[1] EXCEPT !.passwordHash = [bcrypt |-> <<>>]]]

\* POST /login
LoginHandler(users, body) ==
  LET existingUser == SelectByUsername(users, body.username)
  IN IF body.username = "" \/ body.password = <<>>
       THEN [status |-> 400, token |-> NoToken, user |-> NoRow]
     ELSE IF Len(existingUser) = 0
       THEN [status |-> 401, token |-> NoToken, user |-> NoRow]
     ELSE IF ~BcryptCompare(body.password, existingUser[1].passwordHash)
       THEN [status |-> 401, token |-> NoToken, user |-> NoRow]
     ELSE IF ~JwtSecretSet
       THEN [status |-> 500, token |-> NoToken, user |-> NoRow]
     ELSE [status |-> 200,
           token |-> [userId |-> existingUser[1].id, username |-> existingUser[1].username],
           user |-> [existingUser[1] EXCEPT !.passwordHash = [bcrypt |-> <<>>]]]

\* GET /users/:id/key
KeyHandler(users, id) ==
  LET targetUser == SelectById(users, id)
  IN IF Len(targetUser) = 0
       THEN [status |-> 404, publicKey |-> <<>>, publicSigningKey |-> <<>>]
       ELSE [status |-> 200, publicKey |-> targetUser[1].publicKey,
             publicSigningKey |-> targetUser[1].publicSigningKey]

\* GET /users
UsersHandler(users) ==
  [i \in 1..Len(users) |-> [id |-> users[i].id, username |-> users[i].username]]

\* GET /messages/:user1/:user2
MessagesHandler(msgs, user1, user2) ==
  SelectSeq(msgs, LAMBDA m :
     \/ (m.senderId = user1 /\ m.receiverId = user2)
     \/ (m.senderId = user2 /\ m.receiverId = user1))

(***************************************************************************)
(* The browser's localStorage: a function from the keys present to their   *)
(* values.                                                                 *)
(***************************************************************************)
LsSet(ls, key, val) == (key :> val) @@ ls

LsRemove(ls, key) ==
  [k \in (DOMAIN ls) \ { key } |-> ls[k]]

LsHas(ls, key) == key \in DOMAIN ls

KeyToken == << "whisper_token" >>
KeyUsername == << "whisper_username" >>
KeyUserid == << "whisper_userid" >>
KeyPriv(username) == << "whisper_priv_", username >>
KeySignPriv(username) == << "whisper_sign_priv_", username >>

(***************************************************************************)
(* frontend/src/components/Auth.tsx: handleSubmit.                         *)
(***************************************************************************)
NoBody ==
  [username |-> "", password |-> <<>>,
   publicKey |-> <<>>, encryptedPrivateKey |-> <<>>, keyIv |-> <<>>, keySalt |-> <<>>,
   publicSigningKey |-> <<>>, encryptedSigningPrivateKey |-> <<>>, signingKeyIv |-> <<>>]

\* The registration flow up to the request: both key pairs are generated,
\* one salt is drawn, and both private keys are wrapped under the key derived
\* from the password.  draw holds the outcomes of the random source.
RegistrationPayload(username, password, draw) ==
  Bind(deriveKeyFromPassword(password, draw.salt), LAMBDA wrapperKey :
    IF ~wrapperKey.ok THEN Fail(NoBody) ELSE
  Bind(generateKeyPair(draw.ecdh), LAMBDA ecdhKeyPair :
  Bind(generateEcdsaKeyPair(draw.ecdsa), LAMBDA ecdsaKeyPair :
  Bind(wrapPrivateKey(ecdhKeyPair.privateKey, wrapperKey.val, draw.iv1), LAMBDA ecdhWrapped :
  Bind(wrapPrivateKey(ecdsaKeyPair.privateKey, wrapperKey.val, draw.iv2), LAMBDA ecdsaWrapped :
    IF ~ecdhWrapped.ok \/ ~ecdsaWrapped.ok THEN Fail(NoBody)
    ELSE Ok([username |-> username,
             password |-> password,
             publicKey |-> exportPublicKey(ecdhKeyPair.publicKey),
             encryptedPrivateKey |-> ecdhWrapped.val.wrappedKeyBase64,
             keyIv |-> ecdhWrapped.val.ivBase64,
             keySalt |-> arrayBufferToBase64(draw.salt),
             publicSigningKey |-> exportPublicKey(ecdsaKeyPair.publicKey),
             encryptedSigningPrivateKey |-> ecdsaWrapped.val.wrappedKeyBase64,
             signingKeyIv |-> ecdsaWrapped.val.ivBase64]))))))

\* The login flow keeping what was typed for a later unlock: the password
\* goes to localStorage next to the keys.
LoginUnwrapKeepsPassword(ls, username, password, data) ==
  Bind(base64ToArrayBuffer(data.user.keySalt), LAMBDA saltBuffer :
    IF ~saltBuffer.ok THEN [ls |-> ls, authed |-> FALSE] ELSE
  Bind(deriveKeyFromPassword(password, saltBuffer.val), LAMBDA wrapperKey :
    IF ~wrapperKey.ok THEN [ls |-> ls, authed |-> FALSE] ELSE
  Bind(unwrapPrivateKey(data.user.encryptedPrivateKey, wrapperKey.val, data.user.keyIv),
       LAMBDA ecdhPrivateKey :
    IF ~ecdhPrivateKey.ok THEN [ls |-> ls, authed |-> FALSE] ELSE
  Bind(unwrapEcdsaPrivateKey(data.user.encryptedSigningPrivateKey, wrapperKey.val,
                             data.user.signingKeyIv), LAMBDA ecdsaPrivateKey :
    IF ~ecdsaPrivateKey.ok
      THEN [ls |-> LsSet(ls, KeyPriv(username), exportPrivateKey(ecdhPrivateKey.val)),
            authed |-> FALSE]
      ELSE [ls |-> LsSet(LsSet(LsSet(ls, KeyPriv(username),
                                     exportPrivateKey(ecdhPrivateKey.val)),
                               KeySignPriv(username),
                               exportPrivateKey(ecdsaPrivateKey.val)),
                         << "whisper_pw_", username >>, password),
            authed |-> TRUE]))))

\* The login flow with the iv of the signing key used for the key-agreement
\* key and the other way round.
LoginUnwrapIvsSwapped(ls, username, password, data) ==
  Bind(base64ToArrayBuffer(data.user.keySalt), LAMBDA saltBuffer :
    IF ~saltBuffer.ok THEN [ls |-> ls, authed |-> FALSE] ELSE
  Bind(deriveKeyFromPassword(password, saltBuffer.val), LAMBDA wrapperKey :
    IF ~wrapperKey.ok THEN [ls |-> ls, authed |-> FALSE] ELSE
  Bind(unwrapPrivateKey(data.user.encryptedPrivateKey, wrapperKey.val,
                        data.user.signingKeyIv), LAMBDA ecdhPrivateKey :
    IF ~ecdhPrivateKey.ok THEN [ls |-> ls, authed |-> FALSE] ELSE
  Bind(LsSet(ls, KeyPriv(username), exportPrivateKey(ecdhPrivateKey.val)), LAMBDA ls1 :
  Bind(unwrapEcdsaPrivateKey(data.user.encryptedSigningPrivateKey, wrapperKey.val,
                             data.user.keyIv), LAMBDA ecdsaPrivateKey :
    IF ~ecdsaPrivateKey.ok THEN [ls |-> ls1, authed |-> FALSE]
    ELSE [ls |-> LsSet(ls1, KeySignPriv(username), exportPrivateKey(ecdsaPrivateKey.val)),
          authed |-> TRUE])))))

\* The login flow with the failure of the unwrapping swallowed: the session
\* is established whatever the outcome.
LoginUnwrapLenient(ls, username, password, data) ==
  Bind(base64ToArrayBuffer(data.user.keySalt), LAMBDA saltBuffer :
    IF ~saltBuffer.ok THEN [ls |-> ls, authed |-> TRUE] ELSE
  Bind(deriveKeyFromPassword(password, saltBuffer.val), LAMBDA wrapperKey :
    IF ~wrapperKey.ok THEN [ls |-> ls, authed |-> TRUE] ELSE
  Bind(unwrapPrivateKey(data.user.encryptedPrivateKey, wrapperKey.val,
                        data.user.keyIv), LAMBDA ecdhPrivateKey :
    IF ~ecdhPrivateKey.ok THEN [ls |-> ls, authed |-> TRUE] ELSE
  Bind(LsSet(ls, KeyPriv(username), exportPrivateKey(ecdhPrivateKey.val)), LAMBDA ls1 :
  Bind(unwrapEcdsaPrivateKey(data.user.encryptedSigningPrivateKey, wrapperKey.val,
                             data.user.signingKeyIv), LAMBDA ecdsaPrivateKey :
    IF ~ecdsaPrivateKey.ok THEN [ls |-> ls1, authed |-> TRUE]
    ELSE [ls |-> LsSet(ls1, KeySignPriv(username), exportPrivateKey(ecdsaPrivateKey.val)),
          authed |-> TRUE])))))

\* The login flow after a 200 response: the wrapping key is derived again
\* from the typed password and the stored salt; the key-agreement key is
\* unwrapped, exported and written to localStorage, then the signing key;
\* then onAuthSuccess is called (authed).  A failure ends the flow where it
\* happens.
LoginUnwrap(ls, username, password, data) ==
  Bind(base64ToArrayBuffer(data.user.keySalt), LAMBDA saltBuffer :
    IF ~saltBuffer.ok THEN [ls |-> ls, authed |-> FALSE] ELSE
  Bind(deriveKeyFromPassword(password, saltBuffer.val), LAMBDA wrapperKey :
    IF ~wrapperKey.ok THEN [ls |-> ls, authed |-> FALSE] ELSE
  Bind(unwrapPrivateKey(data.user.encryptedPrivateKey, wrapperKey.val,
                        data.user.keyIv), LAMBDA ecdhPrivateKey :
    IF ~ecdhPrivateKey.ok THEN [ls |-> ls, authed |-> FALSE] ELSE
  Bind(LsSet(ls, KeyPriv(username), exportPrivateKey(ecdhPrivateKey.val)), LAMBDA ls1 :
  Bind(unwrapEcdsaPrivateKey(data.user.encryptedSigningPrivateKey, wrapperKey.val,
                             data.user.signingKeyIv), LAMBDA ecdsaPrivateKey :
    IF ~ecdsaPrivateKey.ok THEN [ls |-> ls1, authed |-> FALSE]
    ELSE [ls |-> LsSet(ls1, KeySignPriv(username), exportPrivateKey(ecdsaPrivateKey.val)),
          authed |-> TRUE])))))

(***************************************************************************)
(* The state.  The first group is a bench on which the functions of        *)
(* crypto.ts are applied to drawn inputs.                                  *)
(***************************************************************************)
VARIABLES
  pairA,      \* a key-agreement key pair (generateKeyPair)
  pairB,      \* another one
  secretAB,   \* deriveSharedSecret(A.private, B.public), once derived
  secretBA,   \* deriveSharedSecret(B.private, A.public), once derived
  sealed,     \* the latest encryptMessage call: its plaintext and its result
  ivLog,      \* per encryptMessage call under secretAB: the random draw and the iv returned
  opened,     \* the decryptMessage call on sealed: what was changed and its result
  vault,      \* a registration on its own: the request sent, the row kept, the keys made
  unlock,     \* a run of the login flow on vault: the password typed and the outcome
  signedSchema,   \* the server revision: messages.signature exists and is NOT NULL
  dbUsers,        \* the users table, in insertion order; a row's id is its position
  dbMessages,     \* the messages table, in insertion order
  connectedUsers, \* server.ts connectedUsers: socket id -> user id
  wire,           \* sendMessage events emitted and not yet handled by the server
  inbox,          \* per client: receiveMessage events broadcast and not yet handled
  localStorage,   \* per client: the browser's localStorage
  app,            \* per client: the state of App.tsx
  clock,          \* Date.now()
  codec,          \* a byte sequence put through the two base64 helpers
  endpoint,       \* POST /register on its own: the table, the latest request and its answer
  sockets,        \* the socket ids the relay holds a connection for
  pending,        \* sendMessage handlers that read their sender and await the insert
  serverLog,      \* what the relay wrote with console.error
  requests        \* POST /register handlers that passed the existence check and await the insert

benchVars == << pairA, pairB, secretAB, secretBA, sealed, ivLog, opened >>

unlockVars == << vault, unlock >>

sysVars == << signedSchema, dbUsers, dbMessages, connectedUsers, wire, inbox,
              localStorage, app, clock >>

codecVars == << codec >>

endpointVars == << endpoint >>

flightVars == << sockets, pending, serverLog, requests >>

vars == << benchVars, unlockVars, sysVars, codecVars, endpointVars, flightVars >>

(***************************************************************************)
(* The parties, what they type, and the values standing for "nothing".     *)
(***************************************************************************)
\* Two browsers; the user at each one types the browser's name as username.
Clients == { "alice", "bob" }

Passwords == { << 112, 119, 49 >>, << 112, 119, 50 >> }

\* JavaScript's undefined, for a field an object does not have.
Undefined == << -1 >>

\* The outcomes of the random source during one registration.
RegistrationDraws ==
  { [ecdh |-> a, ecdsa |-> b, salt |-> s, iv1 |-> i1, iv2 |-> i2] :
      a \in RandomScalars, b \in RandomScalars, s \in RandomValues(SaltLen),
      i1 \in RandomValues(IvLen), i2 \in RandomValues(IvLen) }

\* The registrations followed when whole sessions are explored.
DrawAt(r) ==
  [ecdh |-> IF r % 2 = 0 THEN 3 ELSE 7,
   ecdsa |-> IF r % 2 = 0 THEN 7 ELSE 3,
   salt |-> RandomValueAt(SaltLen, r),
   iv1 |-> RandomValueAt(IvLen, r),
   iv2 |-> RandomValueAt(IvLen, (r + 1) % NRand)]

SessionDraws == { DrawAt(r) : r \in 0..(NRand - 1) }

MaxSends == 1

NoSelected == [id |-> 0, username |-> ""]

NoApp ==
  [token |-> NoToken, currentUser |-> "", userId |-> 0, selectedUser |-> NoSelected,
   messages |-> <<>>, usersList |-> <<>>]

NoVault == [request |-> NoBody, user |-> NoRow, ecdh |-> <<>>, ecdsa |-> <<>>]

NoUnlock ==
  [how |-> "none", password |-> <<>>, status |-> 0, ls |-> <<>>, authed |-> FALSE,
   session |-> <<>>, app |-> NoApp, peer |-> <<>>,
   shared |-> [ok |-> FALSE, val |-> NoKey, lookup |-> 0]]

IdleBench ==
  /\ pairA = generateKeyPair(3)
  /\ pairB = generateKeyPair(3)
  /\ secretAB = Fail(NoKey)
  /\ secretBA = Fail(NoKey)
  /\ sealed = [plaintext |-> <<>>, out |-> Fail(NoCipher)]
  /\ ivLog = <<>>
  /\ opened = [how |-> "none", sameText |-> TRUE, sameBytes |-> TRUE, res |-> Fail(<<>>)]

NoCodec == [step |-> "none", x |-> <<>>, base64 |-> <<>>, back |-> Fail(<<>>)]

IdleCodec == codec = NoCodec

NoEndpoint == [before |-> <<>>, users |-> <<>>, body |-> NoBody, status |-> 0]

IdleEndpoint == endpoint = NoEndpoint

IdleFlight ==
  /\ sockets = {}
  /\ pending = << >>
  /\ serverLog = << >>
  /\ requests = << >>

IdleUnlock ==
  /\ vault = NoVault
  /\ unlock = NoUnlock

IdleSys ==
  /\ signedSchema = TRUE
  /\ dbUsers = <<>>
  /\ dbMessages = <<>>
  /\ connectedUsers = <<>>
  /\ wire = <<>>
  /\ inbox = [c \in Clients |-> <<>>]
  /\ localStorage = [c \in Clients |-> <<>>]
  /\ app = [c \in Clients |-> NoApp]
  /\ clock = 0

\* The code units a plaintext is made of: A, the euro sign, a high and a low
\* surrogate, and U+FEFF.
Chars == { 65, 8364, 55357, 56832, 65279 }

RECURSIVE StringsUpTo(_)
StringsUpTo(n) ==
  IF n = 0 THEN { <<>> }
  ELSE LET shorter == StringsUpTo(n - 1)
       IN shorter \cup { Append(s, c) : s \in { t \in shorter : Len(t) = n - 1 }, c \in Chars }

PlainTexts == StringsUpTo(MaxLen)

\* Longest sequence of encryptMessage calls under one key.
MaxCalls == 4

NotYet == Fail(NoKey)
NoSealed == [plaintext |-> <<>>, out |-> Fail(NoCipher)]
NoOpened == [how |-> "none", sameText |-> TRUE, sameBytes |-> TRUE, res |-> Fail(<<>>)]

InitBench ==
  /\ \E da \in RandomScalars, db \in RandomScalars :
       /\ pairA = generateKeyPair(da)
       /\ pairB = generateKeyPair(db)
  /\ secretAB = NotYet
  /\ secretBA = NotYet
  /\ sealed = NoSealed
  /\ ivLog = <<>>
  /\ opened = NoOpened
  /\ IdleUnlock
  /\ IdleSys
  /\ IdleCodec
  /\ IdleEndpoint
  /\ IdleFlight

\* Both parties derive the pairwise key.
Derive ==
  /\ ~secretAB.ok
  /\ secretAB' = deriveSharedSecret(pairA.privateKey, pairB.publicKey)
  /\ secretBA' = deriveSharedSecret(pairB.privateKey, pairA.publicKey)
  /\ UNCHANGED << pairA, pairB, sealed, ivLog, opened >>
  /\ UNCHANGED << unlockVars, sysVars, codecVars, endpointVars, flightVars >>

\* A encrypts a plaintext under its derivation of the key.
Encrypt ==
  /\ secretAB.ok
  /\ ~sealed.out.ok
  /\ \E plaintext \in PlainTexts, rnd \in RandomValues(IvLen) :
       sealed' = [plaintext |-> plaintext,
                  out |-> encryptMessage(secretAB.val, plaintext, rnd)]
  /\ UNCHANGED << pairA, pairB, secretAB, secretBA, ivLog, opened >>
  /\ UNCHANGED << unlockVars, sysVars, codecVars, endpointVars, flightVars >>

\* B decrypts what A produced, under B's derivation of the key.
Decrypt ==
  /\ sealed.out.ok
  /\ secretBA.ok
  /\ opened.how = "none"
  /\ opened' = [how |-> "asis", sameText |-> TRUE, sameBytes |-> TRUE,
                res |-> decryptMessage(secretBA.val, sealed.out.val.ciphertext,
                                       sealed.out.val.iv)]
  /\ UNCHANGED << pairA, pairB, secretAB, secretBA, sealed, ivLog >>
  /\ UNCHANGED << unlockVars, sysVars, codecVars, endpointVars, flightVars >>

\* One bit of one base64 symbol flipped.
FlipBit(sym, b) ==
  LET w == IF b = 0 THEN 1 ELSE IF b = 1 THEN 2 ELSE IF b = 2 THEN 4
           ELSE IF b = 3 THEN 8 ELSE IF b = 4 THEN 16 ELSE 32
  IN IF (sym \div w) % 2 = 0 THEN sym + w ELSE sym - w

\* The symbols of a text that are changed: every one before the padding.
AlterPositions(text) == { i \in 1..Len(text) : text[i] < 64 }

\* The ways a relay or a store may change a base64 text on its way.
Alterations(text) ==
  { [kind |-> "flip", pos |-> i, bit |-> b] : i \in AlterPositions(text), b \in 0..5 }
  \cup { [kind |-> k, pos |-> 0, bit |-> 0] : k \in { "unpad", "space", "junk", "cut" } }

Alter(text, a) ==
  IF a.kind = "flip" THEN [text EXCEPT ![a.pos] = FlipBit(text[a.pos], a.bit)]
  ELSE IF a.kind = "unpad" THEN SelectSeq(text, LAMBDA x : x # PadSym)
  ELSE IF a.kind = "space" THEN Append(text, WsSym)
  ELSE IF a.kind = "junk" THEN Append(text, BadSym)
  ELSE SubSeq(text, 1, Len(text) - 1)

SameBytes(t1, t2) ==
  LET b1 == base64ToArrayBuffer(t1)
      b2 == base64ToArrayBuffer(t2)
  IN b1.ok /\ b2.ok /\ b1.val = b2.val

\* B decrypts after the ciphertext or the iv was changed on the way.
DecryptAltered ==
  /\ sealed.out.ok
  /\ secretBA.ok
  /\ opened.how = "none"
  /\ \E field \in { "ciphertext", "iv" } :
       LET orig == sealed.out.val
           text == IF field = "ciphertext" THEN orig.ciphertext ELSE orig.iv
       IN \E a \in Alterations(text) :
            LET changed == Alter(text, a)
                ct == IF field = "ciphertext" THEN changed ELSE orig.ciphertext
                iv == IF field = "iv" THEN changed ELSE orig.iv
            IN opened' = [how |-> field,
                          sameText |-> changed = text,
                          sameBytes |-> SameBytes(changed, text),
                          res |-> decryptMessage(secretBA.val, ct, iv)]
  /\ UNCHANGED << pairA, pairB, secretAB, secretBA, sealed, ivLog >>
  /\ UNCHANGED << unlockVars, sysVars, codecVars, endpointVars, flightVars >>

\* The public keys somebody other than A may have published: every key of
\* the group but A's.
OtherPublicKeys ==
  { exportPublicKey(CryptoKey("public", "ECDH", v)) :
      v \in (1..(GroupP - 1)) \ { pairA.publicKey.v } }

\* B takes the message for one sent by somebody else: the receive handler
\* (App.tsx 59-73) imports that user's public key, derives the key from it
\* and decrypts what A produced.
DecryptAsFromOther ==
  /\ sealed.out.ok
  /\ opened.how = "none"
  /\ \E base64Key \in OtherPublicKeys :
       \E publicKey \in { importPublicKey(base64Key) } :
         /\ publicKey.ok
         /\ \E sharedSecret \in { deriveSharedSecret(pairB.privateKey, publicKey.val) } :
              /\ sharedSecret.ok
              /\ opened' = [how |-> "other", sameText |-> TRUE, sameBytes |-> TRUE,
                            res |-> decryptMessage(sharedSecret.val,
                                                   sealed.out.val.ciphertext,
                                                   sealed.out.val.iv)]
  /\ UNCHANGED << pairA, pairB, secretAB, secretBA, sealed, ivLog >>
  /\ UNCHANGED << unlockVars, sysVars, codecVars, endpointVars, flightVars >>

NextBench == Derive \/ Encrypt \/ Decrypt \/ DecryptAltered \/ DecryptAsFromOther

SpecCrypto == InitBench /\ [][NextBench]_vars

\* The texts encrypted when only the ivs of the calls are followed.
ShortTexts == StringsUpTo(1)

\* One more encryptMessage call under A's key; only its iv is kept.
EncryptAgain ==
  /\ secretAB.ok
  /\ Len(ivLog) < MaxCalls
  /\ \E plaintext \in ShortTexts, rnd \in RandomValues(IvLen) :
       LET out == encryptMessage(secretAB.val, plaintext, rnd)
       IN /\ out.ok
          /\ ivLog' = Append(ivLog, [drawn |-> rnd, iv |-> out.val.iv])
  /\ UNCHANGED << pairA, pairB, secretAB, secretBA, sealed, opened >>
  /\ UNCHANGED << unlockVars, sysVars, codecVars, endpointVars, flightVars >>

NextNonce == Derive \/ EncryptAgain

SpecNonce == InitBench /\ [][NextNonce]_vars

(***************************************************************************)
(* The two base64 helpers of crypto.ts on their own: a byte sequence is    *)
(* encoded, and what came out is decoded.                                  *)
(***************************************************************************)
\* Longest byte sequence put through the helpers.
MaxBytes == 4

\* The byte values the sequences are made of: both ends of the range and
\* both sides of the sign bit.
ByteVals == { 0, 127, 128, 255 }

RECURSIVE BytesUpTo(_)
BytesUpTo(n) ==
  IF n = 0 THEN { <<>> }
  ELSE LET shorter == BytesUpTo(n - 1)
       IN shorter \cup { Append(s, b) : s \in { t \in shorter : Len(t) = n - 1 },
                                        b \in ByteVals }

InitCodec ==
  /\ IdleBench
  /\ IdleUnlock
  /\ IdleSys
  /\ IdleEndpoint
  /\ IdleFlight
  /\ codec = NoCodec

\* arrayBufferToBase64 is called on a byte sequence.
EncodeBytes ==
  /\ codec.step = "none"
  /\ \E x \in BytesUpTo(MaxBytes) :
       codec' = [step |-> "encoded", x |-> x, base64 |-> arrayBufferToBase64(x),
                 back |-> Fail(<<>>)]
  /\ UNCHANGED << benchVars, unlockVars, sysVars, endpointVars, flightVars >>

\* base64ToArrayBuffer is called on what arrayBufferToBase64 returned.
DecodeBase64 ==
  /\ codec.step = "encoded"
  /\ codec' = [codec EXCEPT !.step = "decoded", !.back = base64ToArrayBuffer(codec.base64)]
  /\ UNCHANGED << benchVars, unlockVars, sysVars, endpointVars, flightVars >>

NextCodec == EncodeBytes \/ DecodeBase64

SpecCodec == InitCodec /\ [][NextCodec]_vars

(***************************************************************************)
(* POST /register on its own: requests with every field, and requests with *)
(* one field missing, against the table as earlier requests left it.       *)
(***************************************************************************)
\* The fields the route reads from req.body.
RegisterFields ==
  { "username", "password", "publicKey", "encryptedPrivateKey", "keyIv", "keySalt",
    "publicSigningKey", "encryptedSigningPrivateKey", "signingKeyIv" }

\* A request body without one of its fields.
Without(body, field) == [body EXCEPT ![field] = NoBody[field]]

\* The bodies sent: what the registration flow builds, whole or with one
\* field left out.
RegisterBodies ==
  LET whole == { RegistrationPayload(c, password, draw).val :
                   c \in Clients, password \in Passwords, draw \in SessionDraws }
  IN whole \cup { Without(body, field) : body \in whole, field \in RegisterFields }

InitRegister ==
  /\ IdleBench
  /\ IdleUnlock
  /\ IdleSys
  /\ IdleCodec
  /\ IdleFlight
  /\ endpoint = NoEndpoint

\* router.post('/register').
PostRegister ==
  /\ \E body \in RegisterBodies :
       \E resp \in { RegisterHandler(endpoint.users, body) } :
         endpoint' = [before |-> endpoint.users, users |-> resp.users, body |-> body,
                      status |-> resp.status]
  /\ UNCHANGED << benchVars, unlockVars, sysVars, codecVars, flightVars >>

NextRegister == PostRegister

SpecRegister == InitRegister /\ [][NextRegister]_vars

(***************************************************************************)
(* frontend/src/App.tsx: the handlers of the chat screen.                  *)
(***************************************************************************)
\* String.prototype.trim: white space and line terminators, U+FEFF included.
IsJsSpace(u) ==
  \/ u \in { 9, 10, 11, 12, 13, 32, 160, 5760, 8232, 8233, 8239, 8287, 12288, 65279 }
  \/ (u >= 8192 /\ u <= 8202)

RECURSIVE TrimStart(_)
TrimStart(s) ==
  IF Len(s) > 0 /\ IsJsSpace(s[1]) THEN TrimStart(Tail(s)) ELSE s

RECURSIVE TrimEnd(_)
TrimEnd(s) ==
  IF Len(s) > 0 /\ IsJsSpace(s[Len(s)]) THEN TrimEnd(SubSeq(s, 1, Len(s) - 1)) ELSE s

Trim(s) == TrimEnd(TrimStart(s))

\* "🔒 [Encrypted Message - Decryption Failed]", by its first character.
LockedText == << 55357, 56594 >>

\* handleAuthSuccess: the session goes to localStorage and to the state.
handleAuthSuccess(ls, a, newToken, username, newUserId) ==
  [ls |-> LsSet(LsSet(LsSet(ls, KeyToken, newToken), KeyUsername, username),
                KeyUserid, newUserId),
   app |-> [a EXCEPT !.token = newToken, !.currentUser = username, !.userId = newUserId]]

\* handleLogout: the session entries are removed and the state is cleared.
handleLogout(ls, a) ==
  [ls |-> LsRemove(LsRemove(LsRemove(ls, KeyToken), KeyUsername), KeyUserid),
   app |-> [a EXCEPT !.token = NoToken, !.currentUser = "", !.userId = 0,
                     !.messages = <<>>, !.selectedUser = NoSelected]]

\* The outcome of PairwiseKey: the key, and the user id it asked
\* GET /users/:id/key for (0: no request was made).
Keyed(res, lookup) == [ok |-> res.ok, val |-> res.val, lookup |-> lookup]

\* PairwiseKey reading the signing private key from localStorage.
PairwiseKeyFromSigningKey(ls, users, currentUser, peerId) ==
  IF ~LsHas(ls, KeySignPriv(currentUser)) THEN Keyed(Fail(NoKey), 0) ELSE
  Bind(importPrivateKey(ls[KeySignPriv(currentUser)]), LAMBDA privateKey :
    IF ~privateKey.ok THEN Keyed(Fail(NoKey), 0) ELSE
  Bind(KeyHandler(users, peerId), LAMBDA res :
  Bind(importPublicKey(res.publicKey), LAMBDA publicKey :
    IF res.status # 200 \/ ~publicKey.ok THEN Keyed(Fail(NoKey), peerId)
    ELSE Keyed(deriveSharedSecret(privateKey.val, publicKey.val), peerId))))

\* PairwiseKey taking the peer's public key from where an earlier operation
\* left it, without a request.
PairwiseKeyKept(ls, users, currentUser, peerId) ==
  IF ~LsHas(ls, KeyPriv(currentUser)) THEN Keyed(Fail(NoKey), 0) ELSE
  Bind(importPrivateKey(ls[KeyPriv(currentUser)]), LAMBDA privateKey :
    IF ~privateKey.ok THEN Keyed(Fail(NoKey), 0) ELSE
  Bind(KeyHandler(users, peerId), LAMBDA kept :
  Bind(importPublicKey(kept.publicKey), LAMBDA publicKey :
    IF kept.status # 200 \/ ~publicKey.ok THEN Keyed(Fail(NoKey), 0)
    ELSE Keyed(deriveSharedSecret(privateKey.val, publicKey.val), 0))))

\* The pairwise key as the chat screen obtains it: the own private key from
\* localStorage, the peer's public key from GET /users/:id/key.
PairwiseKey(ls, users, currentUser, peerId) ==
  IF ~LsHas(ls, KeyPriv(currentUser)) THEN Keyed(Fail(NoKey), 0) ELSE
  Bind(importPrivateKey(ls[KeyPriv(currentUser)]), LAMBDA privateKey :
    IF ~privateKey.ok THEN Keyed(Fail(NoKey), 0) ELSE
  Bind(KeyHandler(users, peerId), LAMBDA res :
  Bind(importPublicKey(res.publicKey), LAMBDA publicKey :
    IF res.status # 200 \/ ~publicKey.ok THEN Keyed(Fail(NoKey), peerId)
    ELSE Keyed(deriveSharedSecret(privateKey.val, publicKey.val), peerId))))

\* loadMessageHistory: the conversation is fetched and decrypted row by row;
\* a row that does not decrypt is shown as locked.
loadMessageHistory(ls, users, msgs, a, selectedUser) ==
  Bind(MessagesHandler(msgs, a.userId, selectedUser.id), LAMBDA encryptedHistory :
  Bind(PairwiseKey(ls, users, a.currentUser, selectedUser.id), LAMBDA sharedSecret :
    IF ~sharedSecret.ok THEN Fail(<<>>)
    ELSE Ok([i \in 1..Len(encryptedHistory) |->
              Bind(encryptedHistory[i], LAMBDA msg :
              Bind(decryptMessage(sharedSecret.val, msg.ciphertext, msg.iv), LAMBDA text :
                [id |-> msg.id,
                 text |-> IF text.ok THEN text.val ELSE LockedText,
                 senderId |-> msg.senderId,
                 receiverId |-> msg.receiverId,
                 isOwnMessage |-> msg.senderId = a.userId]))])))

\* handleSendMessage after its guard: the message is shown at once, then
\* encrypted for the selected user; data is what is emitted, if anything.
handleSendMessage(ls, users, a, inputText, now, rnd) ==
  Bind([id |-> [kind |-> "temp", n |-> now],
        text |-> inputText,
        senderId |-> a.userId,
        receiverId |-> a.selectedUser.id,
        isOwnMessage |-> TRUE], LAMBDA myNewMessage :
  Bind(PairwiseKey(ls, users, a.currentUser, a.selectedUser.id), LAMBDA sharedSecret :
    IF ~sharedSecret.ok
      THEN [messages |-> Append(a.messages, myNewMessage), emitted |-> FALSE,
            data |-> [receiverId |-> a.selectedUser.id, ciphertext |-> <<>>, iv |-> <<>>,
                      signature |-> Undefined]]
      ELSE
  Bind(encryptMessage(sharedSecret.val, inputText, rnd), LAMBDA sealedText :
    [messages |-> Append(a.messages, myNewMessage),
     emitted |-> sealedText.ok,
     data |-> [receiverId |-> a.selectedUser.id,
               ciphertext |-> sealedText.val.ciphertext,
               iv |-> sealedText.val.iv,
               signature |-> Undefined]])))

\* The receiveMessage handler: a message for somebody else is dropped; one
\* for this user is decrypted and appended, or dropped if that fails.
receiveMessage(ls, users, a, savedMessage) ==
  IF savedMessage.receiverId # a.userId THEN a.messages ELSE
  Bind(PairwiseKey(ls, users, a.currentUser, savedMessage.senderId), LAMBDA sharedSecret :
    IF ~sharedSecret.ok THEN a.messages ELSE
  Bind(decryptMessage(sharedSecret.val, savedMessage.ciphertext, savedMessage.iv),
       LAMBDA decryptedText :
    IF ~decryptedText.ok THEN a.messages
    ELSE Append(a.messages,
           [id |-> savedMessage.id,
            text |-> decryptedText.val,
            senderId |-> savedMessage.senderId,
            receiverId |-> savedMessage.receiverId,
            isOwnMessage |-> FALSE])))

(***************************************************************************)
(* A registration on its own, and the login flow run on the row it left,   *)
(* with any password.                                                      *)
(***************************************************************************)
InitUnlock ==
  /\ IdleBench
  /\ IdleSys
  /\ IdleCodec
  /\ IdleEndpoint
  /\ IdleFlight
  /\ vault = NoVault
  /\ unlock = NoUnlock

\* handleSubmit with isLogin false, against an empty users table.
RegisterAlone ==
  /\ vault = NoVault
  /\ \E password \in Passwords, draw \in RegistrationDraws :
       \E payload \in { RegistrationPayload("alice", password, draw) } :
         /\ payload.ok
         /\ \E resp \in { RegisterHandler(<<>>, payload.val) } :
              /\ resp.status = 201
              /\ vault' = [request |-> payload.val,
                           user |-> resp.users[1],
                           ecdh |-> exportPrivateKey(generateKeyPair(draw.ecdh).privateKey),
                           ecdsa |-> exportPrivateKey(
                                       generateEcdsaKeyPair(draw.ecdsa).privateKey)]
  /\ UNCHANGED << unlock, benchVars, sysVars, codecVars, endpointVars, flightVars >>

\* handleSubmit with isLogin true, against the table holding that one row.
LoginAlone ==
  /\ vault # NoVault
  /\ unlock.how = "none"
  /\ \E typed \in Passwords :
       \E data \in { LoginHandler(<< vault.user >>,
                       [NoBody EXCEPT !.username = vault.user.username,
                                      !.password = typed]) } :
         IF data.status # 200
           THEN unlock' = [NoUnlock EXCEPT !.how = "login", !.password = typed,
                                           !.status = data.status]
           ELSE \E out \in { LoginUnwrap(<<>>, vault.user.username, typed, data) } :
                \E session \in { IF out.authed
                                    THEN handleAuthSuccess(out.ls, NoApp, data.token,
                                           data.user.username, data.user.id)
                                    ELSE [ls |-> out.ls, app |-> NoApp] } :
                  unlock' = [NoUnlock EXCEPT !.how = "login", !.password = typed,
                                             !.status = data.status,
                                             !.ls = out.ls, !.authed = out.authed,
                                             !.session = session.ls, !.app = session.app]
  /\ UNCHANGED << vault, benchVars, sysVars, codecVars, endpointVars, flightVars >>

\* handleSubmit with isLogin true and the right password, against a row
\* one of whose wrapped keys is not what wrapPrivateKey returned: POST
\* /register stores any non-empty text it is sent.
LoginDamaged ==
  /\ vault # NoVault
  /\ unlock.how = "none"
  /\ \E field \in { "encryptedPrivateKey", "encryptedSigningPrivateKey" },
        kind \in { "flip", "junk" } :
       \E row \in { [vault.user EXCEPT ![field] =
                       Alter(@, [kind |-> kind, pos |-> 1, bit |-> 0])] } :
       \E data \in { LoginHandler(<< row >>,
                       [NoBody EXCEPT !.username = row.username,
                                      !.password = vault.request.password]) } :
         /\ data.status = 200
         /\ \E out \in { LoginUnwrap(<<>>, row.username, vault.request.password, data) } :
            \E session \in { IF out.authed
                                THEN handleAuthSuccess(out.ls, NoApp, data.token,
                                       data.user.username, data.user.id)
                                ELSE [ls |-> out.ls, app |-> NoApp] } :
              unlock' = [NoUnlock EXCEPT !.how = "damaged",
                                         !.password = vault.request.password,
                                         !.status = data.status,
                                         !.ls = out.ls, !.authed = out.authed,
                                         !.session = session.ls, !.app = session.app]
  /\ UNCHANGED << vault, benchVars, sysVars, codecVars, endpointVars, flightVars >>

\* The login flow from its unwrapping step on, run on the stored row with
\* any password: what a holder of the row can do without the server's check.
UnlockOffline ==
  /\ vault # NoVault
  /\ unlock.how = "none"
  /\ \E typed \in Passwords :
       \E out \in { LoginUnwrap(<<>>, vault.user.username, typed, [user |-> vault.user]) } :
         unlock' = [NoUnlock EXCEPT !.how = "offline", !.password = typed,
                                    !.ls = out.ls, !.authed = out.authed,
                                    !.session = out.ls]
  /\ UNCHANGED << vault, benchVars, sysVars, codecVars, endpointVars, flightVars >>

\* The row of another registered user, as far as the key lookup reads it.
PeerRow(d) ==
  [NoRow EXCEPT !.id = 2, !.username = "bob",
                !.publicKey = exportPublicKey(generateKeyPair(d).publicKey),
                !.publicSigningKey = exportPublicKey(generateEcdsaKeyPair(d).publicKey)]

\* After the login the chat screen derives the key it shares with another
\* user, as handleSendMessage does (App.tsx 192-201).
ChatKey ==
  /\ unlock.how = "login"
  /\ unlock.authed
  /\ unlock.peer = <<>>
  /\ \E d \in RandomScalars :
       \E peer \in { PeerRow(d) } :
         unlock' = [unlock EXCEPT
                      !.peer = peer.publicKey,
                      !.shared = PairwiseKey(unlock.session, << vault.user, peer >>,
                                             unlock.app.currentUser, peer.id)]
  /\ UNCHANGED << vault, benchVars, sysVars, codecVars, endpointVars, flightVars >>

NextUnlock ==
  \/ RegisterAlone
  \/ LoginAlone
  \/ LoginDamaged
  \/ UnlockOffline
  \/ ChatKey

SpecUnlock == InitUnlock /\ [][NextUnlock]_vars

(***************************************************************************)
(* backend/src/server.ts: the socket handlers, in the revision without and *)
(* in the revision with the signature column.                              *)
(***************************************************************************)
\* messages.senderId and messages.receiverId reference users.id.
ForeignKeysHold(users, senderId, receiverId) ==
  Len(SelectById(users, senderId)) > 0 /\ Len(SelectById(users, receiverId)) > 0

\* The relay taking every socket for user 1.
senderOfAnyone(connected, socket) ==
  IF socket \in DOMAIN connected THEN Ok(connected[socket]) ELSE Ok(1)

\* const senderId = connectedUsers.get(socket.id); if (!senderId) return;
senderOf(connected, socket) ==
  IF socket \in DOMAIN connected THEN Ok(connected[socket]) ELSE Fail(0)

\* socket.on('registerUser'): connectedUsers.set(socket.id, userId).
registerUser(connected, socket, userId) == LsSet(connected, socket, userId)

\* A disconnect handler that leaves the map as it is.
disconnectKeepsEntry(connected, socket) == connected

\* socket.on('disconnect'): connectedUsers.delete(socket.id).
disconnect(connected, socket) == LsRemove(connected, socket)

\* sendMessage, no signature column: the row is inserted and returned.
sendMessageUnsigned(connected, users, msgs, socket, data) ==
  IF socket \notin DOMAIN connected THEN [saved |-> FALSE, msgs |-> msgs, row |-> Undefined]
  ELSE LET senderId == connected[socket]
       IN IF ~ForeignKeysHold(users, senderId, data.receiverId)
            THEN [saved |-> FALSE, msgs |-> msgs, row |-> Undefined]
            ELSE Bind([id |-> [kind |-> "uuid", n |-> Len(msgs) + 1],
                     senderId |-> senderId,
                     receiverId |-> data.receiverId,
                     ciphertext |-> data.ciphertext,
                     iv |-> data.iv,
                     signature |-> Undefined],
                   LAMBDA row : [saved |-> TRUE, msgs |-> Append(msgs, row), row |-> row])

\* sendMessage that stores the row and then reports nothing to broadcast.
sendMessageSignedUnannounced(connected, users, msgs, socket, data) ==
  IF socket \notin DOMAIN connected THEN [saved |-> FALSE, msgs |-> msgs, row |-> Undefined]
  ELSE LET senderId == connected[socket]
       IN IF data.signature = Undefined
             \/ ~ForeignKeysHold(users, senderId, data.receiverId)
            THEN [saved |-> FALSE, msgs |-> msgs, row |-> Undefined]
            ELSE Bind([id |-> [kind |-> "uuid", n |-> Len(msgs) + 1],
                     senderId |-> senderId,
                     receiverId |-> data.receiverId,
                     ciphertext |-> data.ciphertext,
                     iv |-> data.iv,
                     signature |-> data.signature],
                   LAMBDA row : [saved |-> FALSE, msgs |-> Append(msgs, row), row |-> row])

\* sendMessage storing the padding-free form of the ciphertext.
sendMessageSignedUnpadded(connected, users, msgs, socket, data) ==
  IF socket \notin DOMAIN connected THEN [saved |-> FALSE, msgs |-> msgs, row |-> Undefined]
  ELSE LET senderId == connected[socket]
       IN IF \/ ~ForeignKeysHold(users, senderId, data.receiverId)
             \/ data.signature = Undefined
            THEN [saved |-> FALSE, msgs |-> msgs, row |-> Undefined]
            ELSE Bind([id |-> [kind |-> "uuid", n |-> Len(msgs) + 1],
                     senderId |-> senderId,
                     receiverId |-> data.receiverId,
                     ciphertext |-> SelectSeq(data.ciphertext, LAMBDA x : x # PadSym),
                     iv |-> data.iv,
                     signature |-> data.signature],
                   LAMBDA row : [saved |-> TRUE, msgs |-> Append(msgs, row), row |-> row])

\* sendMessage taking the sender from the event it was sent.
sendMessageSignedFromPayload(connected, users, msgs, socket, data) ==
  IF socket \notin DOMAIN connected THEN [saved |-> FALSE, msgs |-> msgs, row |-> Undefined]
  ELSE IF \/ ~ForeignKeysHold(users, data.senderId, data.receiverId)
          \/ data.signature = Undefined
         THEN [saved |-> FALSE, msgs |-> msgs, row |-> Undefined]
         ELSE Bind([id |-> [kind |-> "uuid", n |-> Len(msgs) + 1],
                    senderId |-> data.senderId,
                    receiverId |-> data.receiverId,
                    ciphertext |-> data.ciphertext,
                    iv |-> data.iv,
                    signature |-> data.signature],
                   LAMBDA row : [saved |-> TRUE, msgs |-> Append(msgs, row), row |-> row])

\* sendMessage that broadcasts the row before it knows the insert went through.
sendMessageSignedEmitFirst(connected, users, msgs, socket, data) ==
  IF socket \notin DOMAIN connected THEN [saved |-> FALSE, msgs |-> msgs, row |-> Undefined]
  ELSE Bind([id |-> [kind |-> "uuid", n |-> Len(msgs) + 1],
             senderId |-> connected[socket],
             receiverId |-> data.receiverId,
             ciphertext |-> data.ciphertext,
             iv |-> data.iv,
             signature |-> data.signature],
            LAMBDA row :
              IF \/ ~ForeignKeysHold(users, connected[socket], data.receiverId)
                 \/ data.signature = Undefined
                THEN [saved |-> TRUE, msgs |-> msgs, row |-> row]
                ELSE [saved |-> TRUE, msgs |-> Append(msgs, row), row |-> row])

\* sendMessage, signature column NOT NULL: an event without a signature
\* fails the insert and nothing is broadcast.
sendMessageSigned(connected, users, msgs, socket, data) ==
  IF socket \notin DOMAIN connected THEN [saved |-> FALSE, msgs |-> msgs, row |-> Undefined]
  ELSE LET senderId == connected[socket]
       IN IF \/ ~ForeignKeysHold(users, senderId, data.receiverId)
             \/ data.signature = Undefined
            THEN [saved |-> FALSE, msgs |-> msgs, row |-> Undefined]
            ELSE Bind([id |-> [kind |-> "uuid", n |-> Len(msgs) + 1],
                     senderId |-> senderId,
                     receiverId |-> data.receiverId,
                     ciphertext |-> data.ciphertext,
                     iv |-> data.iv,
                     signature |-> data.signature],
                   LAMBDA row : [saved |-> TRUE, msgs |-> Append(msgs, row), row |-> row])

(***************************************************************************)
(* The whole system: two browsers, the REST routes, the socket server and  *)
(* the two tables.  A REST call is answered within the step that makes it; *)
(* socket events travel through wire and inbox.  The sockets stay          *)
(* connected.                                                              *)
(***************************************************************************)
Init ==
  /\ IdleBench
  /\ IdleUnlock
  /\ IdleCodec
  /\ IdleEndpoint
  /\ IdleFlight
  /\ signedSchema \in BOOLEAN
  /\ dbUsers = <<>>
  /\ dbMessages = <<>>
  /\ connectedUsers = <<>>
  /\ wire = <<>>
  /\ inbox = [c \in Clients |-> <<>>]
  /\ localStorage = [c \in Clients |-> <<>>]
  /\ app = [c \in Clients |-> NoApp]
  /\ clock = 0

\* The texts typed in the chat when whole sessions are followed.
ChatTexts == { s \in ShortTexts : \A i \in 1..Len(s) : s[i] \in { 65, 55357 } }

\* Auth.tsx handleSubmit with isLogin false.  What the form shows afterwards
\* is not followed here.
Register ==
  /\ \E c \in Clients :
       /\ app[c].token = NoToken
       /\ \E password \in Passwords, draw \in SessionDraws :
            \E payload \in { RegistrationPayload(c, password, draw) } :
              /\ payload.ok
              /\ dbUsers' = RegisterHandler(dbUsers, payload.val).users
  /\ UNCHANGED << signedSchema, dbMessages, connectedUsers, wire, inbox, localStorage,
                  app, clock >>
  /\ UNCHANGED << benchVars, unlockVars, codecVars, endpointVars, flightVars >>

\* Auth.tsx handleSubmit with isLogin true; on success App.tsx takes over:
\* handleAuthSuccess, the fetch of the user list and the registerUser event.
Login ==
  /\ \E c \in Clients :
       /\ app[c].token = NoToken
       /\ \E password \in Passwords :
            \E data \in { LoginHandler(dbUsers, [NoBody EXCEPT !.username = c,
                                                               !.password = password]) } :
              /\ data.status = 200
              /\ \E out \in { LoginUnwrap(localStorage[c], c, password, data) } :
                   IF ~out.authed
                     THEN /\ localStorage' = [localStorage EXCEPT ![c] = out.ls]
                          /\ UNCHANGED << app, connectedUsers >>
                     ELSE \E session \in { handleAuthSuccess(out.ls, app[c], data.token,
                                             data.user.username, data.user.id) } :
                            /\ localStorage' = [localStorage EXCEPT ![c] = session.ls]
                            /\ app' = [app EXCEPT ![c] =
                                 [session.app EXCEPT !.usersList =
                                    SelectSeq(UsersHandler(dbUsers),
                                              LAMBDA u : u.id # data.user.id)]]
                            /\ connectedUsers' = LsSet(connectedUsers, c, data.user.id)
  /\ UNCHANGED << signedSchema, dbUsers, dbMessages, wire, inbox, clock >>
  /\ UNCHANGED << benchVars, unlockVars, codecVars, endpointVars, flightVars >>

\* App.tsx handleLogout.
Logout ==
  /\ \E c \in Clients :
       /\ app[c].token # NoToken
       /\ \E out \in { handleLogout(localStorage[c], app[c]) } :
            /\ localStorage' = [localStorage EXCEPT ![c] = out.ls]
            /\ app' = [app EXCEPT ![c] = out.app]
  /\ UNCHANGED << signedSchema, dbUsers, dbMessages, connectedUsers, wire, inbox,
                  clock >>
  /\ UNCHANGED << benchVars, unlockVars, codecVars, endpointVars, flightVars >>

\* A user of the list is selected, and the history effect runs.
SelectUser ==
  /\ \E c \in Clients :
       /\ app[c].token # NoToken
       /\ \E i \in 1..Len(app[c].usersList) :
            \E selectedUser \in { app[c].usersList[i] } :
              /\ selectedUser # app[c].selectedUser
              /\ \E history \in { loadMessageHistory(localStorage[c], dbUsers, dbMessages,
                                                     app[c], selectedUser) } :
                   app' = [app EXCEPT ![c].selectedUser = selectedUser,
                                      ![c].messages = IF history.ok THEN history.val ELSE @]
  /\ UNCHANGED << signedSchema, dbUsers, dbMessages, connectedUsers, wire, inbox,
                  localStorage, clock >>
  /\ UNCHANGED << benchVars, unlockVars, codecVars, endpointVars, flightVars >>

\* App.tsx handleSendMessage.
SendMessage ==
  /\ clock < MaxSends
  /\ \E c \in Clients :
       /\ app[c].token # NoToken
       /\ app[c].userId # 0 /\ app[c].currentUser # "" /\ app[c].selectedUser # NoSelected
       /\ \E inputText \in ChatTexts, rnd \in RandomValues(IvLen) :
            /\ Trim(inputText) # <<>>
            /\ \E out \in { handleSendMessage(localStorage[c], dbUsers, app[c], inputText,
                                              clock, rnd) } :
                 /\ app' = [app EXCEPT ![c].messages = out.messages]
                 /\ wire' = IF out.emitted
                              THEN Append(wire, [socket |-> c, data |-> out.data])
                              ELSE wire
  /\ clock' = clock + 1
  /\ UNCHANGED << signedSchema, dbUsers, dbMessages, connectedUsers, inbox,
                  localStorage >>
  /\ UNCHANGED << benchVars, unlockVars, codecVars, endpointVars, flightVars >>

\* server.ts socket.on('sendMessage'): insert, then io.emit to every socket.
ServerSendMessage ==
  /\ Len(wire) > 0
  /\ \E event \in { Head(wire) } :
       \E out \in { IF signedSchema
                      THEN sendMessageSigned(connectedUsers, dbUsers, dbMessages,
                                             event.socket, event.data)
                      ELSE sendMessageUnsigned(connectedUsers, dbUsers, dbMessages,
                                               event.socket, event.data) } :
         /\ dbMessages' = out.msgs
         /\ inbox' = IF out.saved
                       THEN [c \in Clients |-> Append(inbox[c], out.msgs[Len(out.msgs)])]
                       ELSE inbox
  /\ wire' = Tail(wire)
  /\ UNCHANGED << signedSchema, dbUsers, connectedUsers, localStorage, app, clock >>
  /\ UNCHANGED << benchVars, unlockVars, codecVars, endpointVars, flightVars >>

\* App.tsx socket.on('receiveMessage').
ReceiveMessage ==
  /\ \E c \in Clients :
       /\ Len(inbox[c]) > 0
       /\ app' = [app EXCEPT ![c].messages =
                    receiveMessage(localStorage[c], dbUsers, app[c], Head(inbox[c]))]
       /\ inbox' = [inbox EXCEPT ![c] = Tail(@)]
  /\ UNCHANGED << signedSchema, dbUsers, dbMessages, connectedUsers, wire,
                  localStorage, clock >>
  /\ UNCHANGED << benchVars, unlockVars, codecVars, endpointVars, flightVars >>

Next ==
  \/ Register
  \/ Login
  \/ Logout
  \/ SelectUser
  \/ SendMessage
  \/ ServerSendMessage
  \/ ReceiveMessage

Spec == Init /\ [][Next]_vars

(***************************************************************************)
(* The relay between two users who are registered and logged in: besides   *)
(* what handleSendMessage emits, a socket may emit a sendMessage event     *)
(* built elsewhere, with content that does not decrypt, or with a          *)
(* signature when the server has the column for it.                        *)
(***************************************************************************)
PasswordOf(c) == IF c = "alice" THEN << 112, 119, 49 >> ELSE << 112, 119, 50 >>

\* The users table after alice and then bob have registered.
RegisteredUsers ==
  RegisterHandler(
    RegisterHandler(<<>>, RegistrationPayload("alice", PasswordOf("alice"),
                                              DrawAt(0)).val).users,
    RegistrationPayload("bob", PasswordOf("bob"), DrawAt(1 % NRand)).val).users

\* The browser of c after its login: handleSubmit, then handleAuthSuccess
\* and the fetch of the user list.
LoggedIn(c) ==
  Bind(LoginHandler(RegisteredUsers, [NoBody EXCEPT !.username = c,
                                                     !.password = PasswordOf(c)]),
       LAMBDA data :
  Bind(LoginUnwrap(<<>>, c, PasswordOf(c), data), LAMBDA out :
  Bind(handleAuthSuccess(out.ls, NoApp, data.token, data.user.username, data.user.id),
       LAMBDA session :
    [ls |-> session.ls,
     app |-> [session.app EXCEPT !.usersList =
                SelectSeq(UsersHandler(RegisteredUsers),
                          LAMBDA u : u.id # data.user.id)]])))

InitRelay ==
  /\ IdleBench
  /\ IdleUnlock
  /\ IdleCodec
  /\ IdleEndpoint
  /\ IdleFlight
  /\ signedSchema \in BOOLEAN
  /\ dbUsers = RegisteredUsers
  /\ dbMessages = <<>>
  /\ connectedUsers = [c \in Clients |-> LoggedIn(c).app.userId]
  /\ wire = <<>>
  /\ inbox = [c \in Clients |-> <<>>]
  /\ localStorage = [c \in Clients |-> LoggedIn(c).ls]
  /\ app = [c \in Clients |-> LoggedIn(c).app]
  /\ clock = 0

\* What may differ from what encryptMessage returned in an event built
\* elsewhere: nothing, or one of its two texts.
EventAlterations ==
  { [field |-> "none", kind |-> "none", pos |-> 0, bit |-> 0] }
  \cup { [field |-> "ciphertext", kind |-> k, pos |-> 1, bit |-> 0] :
           k \in { "flip", "junk", "cut" } }
  \cup { [field |-> "iv", kind |-> "flip", pos |-> 1, bit |-> 0] }

\* The signature of c over a ciphertext, made with the signing key its login
\* left in localStorage; none if the text is not base64.
SignedAs(c, ciphertext) ==
  Bind(base64ToArrayBuffer(localStorage[c][KeySignPriv(c)]), LAMBDA exported :
  Bind(signMessage(ImportPkcs8(exported.val, "ECDSA").val, ciphertext), LAMBDA sig :
    IF sig.ok THEN sig.val ELSE Undefined))

\* The signatures an event may carry: none, or the sender's signature over
\* the ciphertext where the messages table has the column.
EventSignatures(c, ciphertext) ==
  IF signedSchema THEN { Undefined, SignedAs(c, ciphertext) } ELSE { Undefined }

\* The socket of c emits a sendMessage event for its peer, while nothing
\* else is on its way.
EmitEvent ==
  /\ clock < MaxSends
  /\ wire = <<>>
  /\ \A c \in Clients : inbox[c] = <<>>
  /\ \E c \in Clients, rnd \in { RandomValueAt(IvLen, clock % NRand) },
        a \in EventAlterations :
       \E peer \in { app[c].usersList[1] } :
       \E sharedSecret \in { PairwiseKey(localStorage[c], dbUsers, c, peer.id) } :
         /\ sharedSecret.ok
         /\ \E out \in { encryptMessage(sharedSecret.val, << 65 >>, rnd) } :
              /\ out.ok
              /\ \E ciphertext \in { IF a.field = "ciphertext"
                                        THEN Alter(out.val.ciphertext, a)
                                        ELSE out.val.ciphertext },
                     iv \in { IF a.field = "iv" THEN Alter(out.val.iv, a)
                                                 ELSE out.val.iv } :
                   \E signature \in EventSignatures(c, ciphertext) :
                     wire' = Append(wire, [socket |-> c,
                                           data |-> [receiverId |-> peer.id,
                                                     ciphertext |-> ciphertext,
                                                     iv |-> iv,
                                                     signature |-> signature]])
  /\ clock' = clock + 1
  /\ UNCHANGED << signedSchema, dbUsers, dbMessages, connectedUsers, inbox,
                  localStorage, app >>
  /\ UNCHANGED << benchVars, unlockVars, codecVars, endpointVars, flightVars >>

\* handleSendMessage while GET /users/:id/key gives no key: the request
\* fails or is answered with an error, as by a server that finds no row.
SendMessageNoKey ==
  /\ clock < MaxSends
  /\ \E c \in Clients :
       /\ app[c].token # NoToken
       /\ app[c].userId # 0 /\ app[c].currentUser # "" /\ app[c].selectedUser # NoSelected
       /\ \E inputText \in ChatTexts, rnd \in RandomValues(IvLen) :
            /\ Trim(inputText) # <<>>
            /\ \E out \in { handleSendMessage(localStorage[c], << >>, app[c], inputText,
                                              clock, rnd) } :
                 /\ app' = [app EXCEPT ![c].messages = out.messages]
                 /\ wire' = IF out.emitted
                              THEN Append(wire, [socket |-> c, data |-> out.data])
                              ELSE wire
  /\ clock' = clock + 1
  /\ UNCHANGED << signedSchema, dbUsers, dbMessages, connectedUsers, inbox,
                  localStorage >>
  /\ UNCHANGED << benchVars, unlockVars, codecVars, endpointVars, flightVars >>

NextRelay ==
  \/ EmitEvent
  \/ SelectUser
  \/ SendMessage
  \/ SendMessageNoKey
  \/ ServerSendMessage
  \/ ReceiveMessage

SpecRelay == InitRelay /\ [][NextRelay]_vars

(***************************************************************************)
(* The relay on its own, with sockets that connect, register, send and     *)
(* disconnect.  A sendMessage handler runs in two steps, as it does around *)
(* its await: it reads the sender, and later the insert resolves and the   *)
(* row is broadcast; other events are handled in between.                  *)
(***************************************************************************)
InitServer ==
  /\ IdleBench
  /\ IdleUnlock
  /\ IdleCodec
  /\ IdleEndpoint
  /\ signedSchema \in BOOLEAN
  /\ dbUsers = RegisteredUsers
  /\ dbMessages = << >>
  /\ connectedUsers = << >>
  /\ wire = << >>
  /\ inbox = [c \in Clients |-> << >>]
  /\ localStorage = [c \in Clients |-> << >>]
  /\ app = [c \in Clients |-> NoApp]
  /\ clock = 0
  /\ sockets = {}
  /\ pending = << >>
  /\ serverLog = << >>
  /\ requests = << >>

\* The sendMessage events a socket may emit: to a user of the table or to
\* nobody's id, with or without a signature, and naming the last user of the
\* table as its sender.
ServerEvents ==
  [ receiverId : { 1, Len(RegisteredUsers) + 7 },
    ciphertext : { << 0 >> },
    iv : { << 0 >> },
    signature : { Undefined, << 0 >> },
    senderId : { Len(RegisteredUsers) } ]

\* io.on('connection').
Connect ==
  /\ \E s \in Clients \ sockets : sockets' = sockets \cup { s }
  /\ UNCHANGED << pending, serverLog, requests >>
  /\ UNCHANGED << benchVars, unlockVars, sysVars, codecVars, endpointVars >>

\* socket.on('registerUser').
RegisterUser ==
  /\ \E s \in sockets, userId \in 1..Len(dbUsers) :
       connectedUsers' = registerUser(connectedUsers, s, userId)
  /\ UNCHANGED << signedSchema, dbUsers, dbMessages, wire, inbox, localStorage, app,
                  clock >>
  /\ UNCHANGED << benchVars, unlockVars, codecVars, endpointVars, flightVars >>

\* A connected socket emits sendMessage.
EmitSend ==
  /\ clock < MaxSends
  /\ \E s \in sockets, data \in ServerEvents :
       wire' = Append(wire, [socket |-> s, data |-> data])
  /\ clock' = clock + 1
  /\ UNCHANGED << signedSchema, dbUsers, dbMessages, connectedUsers, inbox,
                  localStorage, app >>
  /\ UNCHANGED << benchVars, unlockVars, codecVars, endpointVars, flightVars >>

\* socket.on('sendMessage') up to its await: the sender is read from
\* connectedUsers, and without one the handler logs and returns.
TakeSend ==
  /\ Len(wire) > 0
  /\ \E event \in { Head(wire) } :
       \E senderId \in { senderOf(connectedUsers, event.socket) } :
         IF senderId.ok
           THEN /\ pending' = Append(pending, [socket |-> event.socket,
                                               senderId |-> senderId.val,
                                               data |-> event.data])
                /\ UNCHANGED serverLog
           ELSE /\ serverLog' = Append(serverLog, "unauthorized")
                /\ UNCHANGED pending
  /\ wire' = Tail(wire)
  /\ UNCHANGED << signedSchema, dbUsers, dbMessages, connectedUsers, inbox,
                  localStorage, app, clock >>
  /\ UNCHANGED << sockets, requests >>
  /\ UNCHANGED << benchVars, unlockVars, codecVars, endpointVars >>

\* socket.on('sendMessage') from its await on: the insert resolves with the
\* sender read before it, and the returned row goes to every connected
\* socket; a failed insert is logged.
StoreSend ==
  /\ \E i \in 1..Len(pending) :
       \E out \in { IF signedSchema
                      THEN sendMessageSigned((pending[i].socket :> pending[i].senderId),
                                             dbUsers, dbMessages,
                                             pending[i].socket, pending[i].data)
                      ELSE sendMessageUnsigned((pending[i].socket :> pending[i].senderId),
                                               dbUsers, dbMessages,
                                               pending[i].socket, pending[i].data) } :
         /\ dbMessages' = out.msgs
         /\ inbox' = IF out.saved
                       THEN [c \in Clients |->
                               IF c \in sockets THEN Append(inbox[c], out.row)
                               ELSE inbox[c]]
                       ELSE inbox
         /\ serverLog' = IF out.saved THEN serverLog
                         ELSE Append(serverLog, "not saved")
         /\ pending' = SubSeq(pending, 1, i - 1) \o SubSeq(pending, i + 1, Len(pending))
  /\ UNCHANGED << signedSchema, dbUsers, connectedUsers, wire, localStorage, app, clock >>
  /\ UNCHANGED << sockets, requests >>
  /\ UNCHANGED << benchVars, unlockVars, codecVars, endpointVars >>

\* socket.on('disconnect'), once what the socket sent has been taken up; the
\* events not yet delivered to it are gone with it.
Disconnect ==
  /\ \E s \in sockets :
       /\ \A k \in 1..Len(wire) : wire[k].socket # s
       /\ sockets' = sockets \ { s }
       /\ connectedUsers' = disconnect(connectedUsers, s)
       /\ inbox' = [inbox EXCEPT ![s] = << >>]
  /\ UNCHANGED << signedSchema, dbUsers, dbMessages, wire, localStorage, app, clock >>
  /\ UNCHANGED << pending, serverLog, requests >>
  /\ UNCHANGED << benchVars, unlockVars, codecVars, endpointVars >>

NextServer ==
  \/ Connect
  \/ RegisterUser
  \/ EmitSend
  \/ TakeSend
  \/ StoreSend
  \/ Disconnect

SpecServer == InitServer /\ [][NextServer]_vars

(***************************************************************************)
(* Properties of the functions of crypto.ts (SpecCrypto, SpecNonce).       *)
(***************************************************************************)

\* C1: for any two key-agreement key pairs A and B, deriveSharedSecret of
\* (A.private, B.public) and of (B.private, A.public) both succeed and yield
\* the same AES key.
C1_DeriveSymmetric ==
  (secretAB.ok \/ secretBA.ok) =>
     /\ secretAB.ok /\ secretBA.ok
     /\ secretAB.val = secretBA.val

\* Both derivations were made, from two different key pairs.
C1_Witness ==
  /\ secretAB.ok /\ secretBA.ok
  /\ pairA.privateKey # pairB.privateKey
  /\ secretAB.val.type = "secret"

\* A string without unpaired surrogates.
RECURSIVE WellFormed(_)
WellFormed(s) ==
  IF Len(s) = 0 THEN TRUE
  ELSE IF IsHigh(s[1])
    THEN Len(s) >= 2 /\ IsLow(s[2]) /\ WellFormed(SubSeq(s, 3, Len(s)))
  ELSE ~IsLow(s[1]) /\ WellFormed(SubSeq(s, 2, Len(s)))

StartsWithBom(s) == Len(s) >= 1 /\ s[1] = 65279

\* C2 as stated: for every plaintext p and key s, decryptMessage of what
\* encryptMessage(s, p) returned gives exactly p.
C2_RoundTripEveryString ==
  opened.how = "asis" => opened.res = Ok(sealed.plaintext)

\* C2, amended: decryptMessage of what encryptMessage(s, p) returned always
\* succeeds, and gives exactly p when p has no unpaired surrogate and does
\* not begin with U+FEFF.
C2_RoundTrip ==
  opened.how = "asis" =>
     /\ opened.res.ok
     /\ (WellFormed(sealed.plaintext) /\ ~StartsWithBom(sealed.plaintext))
          => opened.res.val = sealed.plaintext

\* A surrogate pair followed by nothing else, or two characters, came back.
C2_Witness ==
  /\ opened.how = "asis"
  /\ Len(sealed.plaintext) = MaxLen
  /\ WellFormed(sealed.plaintext) /\ ~StartsWithBom(sealed.plaintext)
  /\ opened.res = Ok(sealed.plaintext)

AsIs ==
  decryptMessage(secretBA.val, sealed.out.val.ciphertext, sealed.out.val.iv)

\* C5 as stated: whenever the ciphertext or the iv text differs in any way
\* from what encryptMessage produced, decryptMessage fails.
C5_AnyChangeFails ==
  (opened.how \in { "ciphertext", "iv" } /\ ~opened.sameText) => ~opened.res.ok

\* C5, amended: when the bytes the ciphertext or the iv decodes to differ
\* from those encryptMessage produced, decryptMessage fails; a changed text
\* that decodes to the same bytes decrypts to what the unchanged one
\* decrypts to, so no changed plaintext is ever obtained.
C5_TamperDetected ==
  opened.how \in { "ciphertext", "iv" } =>
     /\ ~opened.sameBytes => ~opened.res.ok
     /\ opened.sameBytes => opened.res = AsIs
     /\ opened.res.ok => opened.res = AsIs

\* A changed ciphertext that decodes to other bytes was rejected.
C5_Witness ==
  /\ opened.how = "ciphertext"
  /\ ~opened.sameText /\ ~opened.sameBytes
  /\ ~opened.res.ok
  /\ Len(sealed.plaintext) > 0

\* C6 as stated: no two encryptMessage calls under the same key use the
\* same iv.
C6_NoIvReuse ==
  \A i \in 1..Len(ivLog), j \in 1..Len(ivLog) :
     i # j => ivLog[i].iv # ivLog[j].iv

\* C6, amended: the iv every encryptMessage call returns is the base64 of
\* the 12 bytes the call drew from getRandomValues itself.
C6_IvDrawnInside ==
  \A i \in 1..Len(ivLog) :
     LET b == base64ToArrayBuffer(ivLog[i].iv)
     IN b.ok /\ Len(b.val) = IvLen /\ b.val = ivLog[i].drawn

\* Two calls under one key drew the same iv.
C6_Witness ==
  \E i \in 1..Len(ivLog), j \in 1..Len(ivLog) :
     i # j /\ ivLog[i].iv = ivLog[j].iv /\ ivLog[i].drawn \in RandomValues(IvLen)

(***************************************************************************)
(* Properties of registration and login (SpecUnlock).                      *)
(***************************************************************************)

\* C3: a login with the password given at registration is accepted, unwraps
\* both private keys, and what it writes to localStorage is exactly the
\* export of the two private keys generated at registration; onAuthSuccess is
\* called.
C3_LoginUnwrapsRegisteredKeys ==
  (unlock.how = "login" /\ unlock.password = vault.request.password) =>
     /\ unlock.status = 200
     /\ unlock.authed
     /\ DOMAIN unlock.ls = { KeyPriv(vault.user.username), KeySignPriv(vault.user.username) }
     /\ unlock.ls[KeyPriv(vault.user.username)] = vault.ecdh
     /\ unlock.ls[KeySignPriv(vault.user.username)] = vault.ecdsa

\* A login with the registration password went through.
C3_Witness ==
  /\ unlock.how = "login"
  /\ unlock.password = vault.request.password
  /\ unlock.authed
  /\ unlock.ls[KeyPriv(vault.user.username)] = vault.ecdh

\* C4: run with a password other than the registration password, the login
\* flow fails at unwrapPrivateKey: no key is written to localStorage and
\* onAuthSuccess is not called.
C4_WrongPasswordFails ==
  (unlock.how = "offline" /\ unlock.password # vault.request.password) =>
     /\ ~unlock.authed
     /\ unlock.ls = <<>>

\* The flow was run on a stored row with another password, and it failed.
C4_Witness ==
  /\ unlock.how = "offline"
  /\ vault.request.password # <<>>
  /\ unlock.password # vault.request.password
  /\ ~unlock.authed

\* What the server can do with one registration request: derive the wrapping
\* key from the password and the salt in it, and unwrap the private key.
ServerUnwraps(body) ==
  Bind(base64ToArrayBuffer(body.keySalt), LAMBDA salt :
    salt.ok /\
  Bind(deriveKeyFromPassword(body.password, salt.val), LAMBDA wrapperKey :
    wrapperKey.ok /\
    unwrapPrivateKey(body.encryptedPrivateKey, wrapperKey.val, body.keyIv).ok))

\* C9: what the server receives is not enough to recover a private key: from
\* the body of a registration request alone the wrapped key-agreement key
\* cannot be unwrapped.
C9_ServerCannotUnwrap ==
  (vault # NoVault) => ~ServerUnwraps(vault.request)

\* C14: for every byte sequence x, the empty one included,
\* base64ToArrayBuffer(arrayBufferToBase64(x)) succeeds and yields x: the
\* same bytes, as many, in the same order.
C14_Base64RoundTrip ==
  (codec.step = "decoded") => (codec.back = Ok(codec.x))

\* A sequence whose length is not a multiple of three, holding a byte with
\* the top bit set, went through both helpers.
C14_Witness ==
  /\ codec.step = "decoded"
  /\ Len(codec.x) % 3 = 1
  /\ \E i \in 1..Len(codec.x) : codec.x[i] = 255
  /\ Len(codec.back.val) = Len(codec.x)

\* The salt of a registration request opens a wrapped record: the key derived
\* from the password and that salt unwraps it.
SaltOpens(body, alg, wrappedKeyBase64, ivBase64) ==
  Bind(base64ToArrayBuffer(body.keySalt), LAMBDA salt :
    salt.ok /\
  Bind(deriveKeyFromPassword(body.password, salt.val), LAMBDA wrapperKey :
    wrapperKey.ok /\ UnwrapAs(alg, wrappedKeyBase64, wrapperKey.val, ivBase64).ok))

\* C13: no salt serves two wrap operations: the salt of an account's
\* registration does not open both the wrapped key-agreement private key and
\* the wrapped signing private key.
C13_OneWrapPerSalt ==
  (vault # NoVault) =>
     ~( /\ SaltOpens(vault.request, "ECDH", vault.request.encryptedPrivateKey,
                     vault.request.keyIv)
        /\ SaltOpens(vault.request, "ECDSA", vault.request.encryptedSigningPrivateKey,
                     vault.request.signingKeyIv) )

\* C12: when the receiver derives the key from a public key that is not the
\* key-agreement public key of the user who encrypted the message,
\* decryptMessage fails and yields no text.
C12_WrongSenderKeyFails ==
  (opened.how = "other") => (~opened.res.ok /\ opened.res.val = <<>>)

\* A non-empty text encrypted by A was decrypted by B under the key derived
\* from another user's public key, and that failed.
C12_Witness ==
  /\ opened.how = "other"
  /\ sealed.plaintext # <<>>
  /\ ~opened.res.ok

\* The public key that belongs to an exported private key.
PublicHalf(privKeyBase64) ==
  Bind(importPrivateKey(privKeyBase64), LAMBDA privateKey :
    exportPublicKey(CryptoKey("public", "ECDH", ModExp(GroupG, privateKey.val.v, GroupP))))

\* C15: an account's two key pairs keep their roles.  The published
\* key-agreement key and the published signing key are the public halves of
\* the two private keys generated at registration, each kept under its own
\* localStorage entry after a login; and the key the chat screen derives for
\* a peer is derived from the key-agreement private key and the peer's
\* published key-agreement key, never from a signing key.
C15_KeyPairsKeepRoles ==
  /\ (vault # NoVault) =>
        /\ vault.user.publicKey = PublicHalf(vault.ecdh)
        /\ vault.user.publicSigningKey = PublicHalf(vault.ecdsa)
  /\ unlock.authed =>
        /\ unlock.session[KeyPriv(vault.user.username)] = vault.ecdh
        /\ unlock.session[KeySignPriv(vault.user.username)] = vault.ecdsa
  /\ (unlock.peer # <<>>) =>
        /\ unlock.shared.ok
        /\ unlock.shared.val = deriveSharedSecret(importPrivateKey(vault.ecdh).val,
                                                  importPublicKey(unlock.peer).val).val

\* An account whose two private keys differ has logged in and derived the
\* key it shares with a peer.
C15_Witness ==
  /\ unlock.peer # <<>>
  /\ unlock.shared.ok
  /\ vault.ecdh # vault.ecdsa
  /\ unlock.session[KeyPriv(vault.user.username)] = vault.ecdh

\* The localStorage entries a login may leave for a user.
SessionKeys(username) ==
  { KeyToken, KeyUsername, KeyUserid, KeyPriv(username), KeySignPriv(username) }

\* C16: a registration or login run, successful or failed, leaves the
\* password in no state of the client that outlives it: localStorage holds
\* nothing but the session entries and the two exported private keys, none
\* of them the password or its bytes, and the App state holds the token, the
\* user name and the user id the server returned.
C16_PasswordNotKept ==
  /\ (unlock.how = "none") => (unlock.session = <<>> /\ unlock.app = NoApp)
  /\ (unlock.how # "none") =>
        /\ DOMAIN unlock.session \subseteq SessionKeys(vault.user.username)
        /\ \A k \in DOMAIN unlock.session :
              (k[1] \in { "whisper_priv_", "whisper_sign_priv_" }) =>
                 /\ unlock.session[k] \in { vault.ecdh, vault.ecdsa }
                 /\ unlock.session[k] # unlock.password
                 /\ unlock.session[k] # arrayBufferToBase64(TextEncode(unlock.password))
        /\ IF unlock.authed /\ unlock.how = "login"
             THEN /\ unlock.session[KeyToken] =
                       [userId |-> vault.user.id, username |-> vault.user.username]
                  /\ unlock.session[KeyUsername] = vault.user.username
                  /\ unlock.session[KeyUserid] = vault.user.id
                  /\ unlock.app = [NoApp EXCEPT !.token = unlock.session[KeyToken],
                                                !.currentUser = vault.user.username,
                                                !.userId = vault.user.id]
             ELSE /\ unlock.app = NoApp
                  /\ KeyToken \notin DOMAIN unlock.session

\* A login with the registration password has run to its end and has left
\* its session entries in localStorage.
C16_Witness ==
  /\ unlock.how = "login"
  /\ unlock.authed
  /\ KeyToken \in DOMAIN unlock.session
  /\ unlock.password = vault.request.password

\* C17: every stored user record holds a public key, a public signing key,
\* the wrapped private key and its iv for both pairs, and a salt; a register
\* request without one of the fields is answered with an error and leaves
\* the table as it was.
C17_RegisterNeedsEveryField ==
  /\ \A i \in 1..Len(endpoint.users) :
       \A row \in { endpoint.users[i] } :
         /\ row.publicKey # <<>> /\ row.publicSigningKey # <<>>
         /\ row.encryptedPrivateKey # <<>> /\ row.keyIv # <<>>
         /\ row.encryptedSigningPrivateKey # <<>> /\ row.signingKeyIv # <<>>
         /\ row.keySalt # <<>>
  /\ (endpoint.status # 0 /\
      \E field \in RegisterFields : endpoint.body[field] = NoBody[field]) =>
        (endpoint.status >= 400 /\ endpoint.users = endpoint.before)
  /\ (endpoint.status = 201) =>
        /\ Len(endpoint.users) = Len(endpoint.before) + 1
        /\ \A field \in RegisterFields \ { "password" } :
              endpoint.users[Len(endpoint.users)][field] = endpoint.body[field]

\* A request without its signing key iv was refused while the table held a
\* row, and the table kept that row only.
C17_Witness ==
  /\ endpoint.status = 400
  /\ endpoint.body.signingKeyIv = <<>>
  /\ endpoint.body.publicKey # <<>>
  /\ Len(endpoint.users) = 1

(***************************************************************************)
(* Properties of whole sessions (Spec).                                    *)
(***************************************************************************)

\* The signature of a message verifies under the published signing key of
\* the user with that name.
SignedBy(users, username, ciphertext, signature) ==
  /\ signature # Undefined
  /\ \E row \in { users[i] : i \in 1..Len(users) } :
       /\ row.username = username
       /\ Bind(importSigningPublicKey(row.publicSigningKey), LAMBDA key :
            key.ok /\ verifySignature(key.val, ciphertext, signature))

\* C7: every sendMessage event a client emits carries a signature over its
\* ciphertext that verifies under the sender's signing key.
C7_OutboundSigned ==
  \A i \in 1..Len(wire) :
     SignedBy(dbUsers, wire[i].socket, wire[i].data.ciphertext, wire[i].data.signature)

\* The stored row a displayed message came from carries a signature that
\* verifies under the signing key of its sender.
RowSigned(users, row) ==
  \E u \in { users[i] : i \in 1..Len(users) } :
     /\ u.id = row.senderId
     /\ SignedBy(users, u.username, row.ciphertext, row.signature)

\* C8: a message shown in a chat as coming from somebody else comes from a
\* stored message whose signature verifies under its sender's signing key.
C8_DisplayedVerified ==
  \A c \in Clients : \A i \in 1..Len(app[c].messages) :
     (~app[c].messages[i].isOwnMessage) =>
        \E j \in 1..Len(dbMessages) :
           /\ dbMessages[j].id = app[c].messages[i].id
           /\ RowSigned(dbUsers, dbMessages[j])

\* The localStorage keys under which unwrapped private keys are kept.
HoldsPrivateKey(ls) ==
  \E k \in DOMAIN ls : k[1] \in { "whisper_priv_", "whisper_sign_priv_" }

\* C10: a step that ends a session (handleLogout) leaves no unwrapped private
\* key in that browser's localStorage.
C10_LogoutWipesKeys ==
  [][\A c \in Clients :
       (app[c].token # NoToken /\ app'[c].token = NoToken) =>
          ~HoldsPrivateKey(localStorage'[c])]_vars

\* What the receiver of a stored row reads in it: the row decrypted under the
\* key the receiver's browser derives for the row's sender.
ReceiverReads(row) ==
  Bind(SelectById(dbUsers, row.receiverId), LAMBDA found :
    IF Len(found) = 0 THEN Fail(<<>>) ELSE
  Bind(PairwiseKey(localStorage[found[1].username], dbUsers, found[1].username,
                   row.senderId), LAMBDA sharedSecret :
    IF ~sharedSecret.ok THEN Fail(<<>>)
    ELSE decryptMessage(sharedSecret.val, row.ciphertext, row.iv)))

\* The relay has nothing left to do: no event is waiting at the server and no
\* broadcast is waiting at a browser.
RelayIdle ==
  wire = <<>> /\ \A c \in Clients : inbox[c] = <<>>

\* C11: once the relay has handled everything, a text a logged-in user typed
\* for a user who has logged in on their own browser has reached that user:
\* there is a relayed message from the sender to the receiver that the
\* receiver decrypts to the typed text, and its signature verifies under the
\* sender's signing key.
C11_DeliveredAndVerified ==
  \A c \in Clients : \A i \in 1..Len(app[c].messages) :
     \A m \in { app[c].messages[i] } :
       ( /\ RelayIdle
         /\ m.id.kind = "temp"
         /\ \E r \in Clients :
              /\ LsHas(localStorage[r], KeyPriv(r))
              /\ SelectByUsername(dbUsers, r) # <<>>
              /\ SelectByUsername(dbUsers, r)[1].id = m.receiverId )
       => \E j \in 1..Len(dbMessages) :
            /\ dbMessages[j].senderId = m.senderId
            /\ dbMessages[j].receiverId = m.receiverId
            /\ ReceiverReads(dbMessages[j]) = Ok(m.text)
            /\ RowSigned(dbUsers, dbMessages[j])

(***************************************************************************)
(* Properties of the relay between two logged-in users (SpecRelay).        *)
(***************************************************************************)

\* The entry of a chat for a stored row: its text, or the locked text when
\* the row does not decrypt.
ShownFor(row, entry) ==
  /\ entry.id = row.id
  /\ \E text \in { ReceiverReads(row) } :
       entry.text = IF text.ok THEN text.val ELSE LockedText

\* C18: a message addressed to a user that does not decrypt is not dropped
\* in silence: once the user's browser has handled it, received live or
\* loaded with the history, the chat holds an entry for it, and that entry
\* shows the failure and no plaintext.
C18_FailureSurfaced ==
  \A c \in Clients : \A j \in 1..Len(dbMessages) :
     \A row \in { dbMessages[j] } :
       ( /\ row.receiverId = app[c].userId
         /\ \A k \in 1..Len(inbox[c]) : inbox[c][k].id # row.id )
       => \E i \in 1..Len(app[c].messages) : ShownFor(row, app[c].messages[i])

SentFields(m) ==
  [receiverId |-> m.receiverId, ciphertext |-> m.ciphertext, iv |-> m.iv,
   signature |-> m.signature]

C21_DeliveredToAllKeptByAddressee ==
  [][ /\ (dbMessages' # dbMessages) =>
           \A c \in Clients :
              /\ Len(inbox'[c]) = Len(inbox[c]) + 1
              /\ inbox'[c][Len(inbox'[c])] = dbMessages'[Len(dbMessages')]
      /\ \A c \in Clients :
           (Len(inbox[c]) > 0 /\ inbox'[c] = Tail(inbox[c])) =>
              /\ (app'[c].messages # app[c].messages) =>
                    /\ Head(inbox[c]).receiverId = app[c].userId
                    /\ Len(app'[c].messages) = Len(app[c].messages) + 1
                    /\ app'[c].messages[Len(app'[c].messages)].id = Head(inbox[c]).id
                    /\ ~app'[c].messages[Len(app'[c].messages)].isOwnMessage
              /\ (Head(inbox[c]).receiverId # app[c].userId) =>
                    app'[c].messages = app[c].messages ]_vars

\* A stored message was handled by both browsers: the addressee, who never
\* loaded a history, lists it, and the other browser does not.
C21_Witness ==
  \E k \in 1..Len(dbMessages), c \in Clients, d \in Clients :
     /\ c # d
     /\ dbMessages[k].receiverId = app[c].userId
     /\ app[c].selectedUser = NoSelected
     /\ \E j \in 1..Len(app[c].messages) : app[c].messages[j].id = dbMessages[k].id
     /\ inbox[d] = << >>
     /\ \A j \in 1..Len(app[d].messages) : app[d].messages[j].id # dbMessages[k].id

(***************************************************************************)
(* POST /register with several requests at once.  A handler runs in two    *)
(* steps, as it does around its awaits: the validation and the existence   *)
(* check, and later the insert; other handlers run in between.             *)
(***************************************************************************)
MaxRegistrations == 3

InitRace ==
  /\ IdleBench
  /\ IdleUnlock
  /\ IdleSys
  /\ IdleCodec
  /\ IdleEndpoint
  /\ IdleFlight

\* The requests sent: each user name with each password.
RaceBodies ==
  { RegistrationPayload(c, password, DrawAt(0)).val : c \in Clients, password \in Passwords }

\* router.post('/register') up to the insert: a request answered 400 or 409
\* ends here, any other awaits its insert.
RegisterCheck ==
  /\ clock < MaxRegistrations
  /\ \E body \in RaceBodies :
       requests' = IF RegisterHandler(dbUsers, body).status = 201
                     THEN Append(requests, body)
                     ELSE requests
  /\ clock' = clock + 1
  /\ UNCHANGED << signedSchema, dbUsers, dbMessages, connectedUsers, wire, inbox,
                  localStorage, app >>
  /\ UNCHANGED << sockets, pending, serverLog >>
  /\ UNCHANGED << benchVars, unlockVars, codecVars, endpointVars >>

\* router.post('/register') from the insert on; the catch logs the error.
RegisterInsert ==
  /\ \E i \in 1..Len(requests) :
       \E out \in { registerInsert(dbUsers, requests[i]) } :
         /\ dbUsers' = out.users
         /\ serverLog' = IF out.status = 201 THEN serverLog
                         ELSE Append(serverLog, "Registration error")
         /\ requests' = SubSeq(requests, 1, i - 1) \o SubSeq(requests, i + 1, Len(requests))
  /\ UNCHANGED << signedSchema, dbMessages, connectedUsers, wire, inbox,
                  localStorage, app, clock >>
  /\ UNCHANGED << sockets, pending >>
  /\ UNCHANGED << benchVars, unlockVars, codecVars, endpointVars >>

NextRace ==
  \/ RegisterCheck
  \/ RegisterInsert

SpecRace == InitRace /\ [][NextRace]_vars

\* C24: no two stored user records share a username, also when register
\* requests for one username interleave between the existence check and the
\* insert.
C24_UsernamesUnique ==
  \A i \in 1..Len(dbUsers), j \in 1..Len(dbUsers) :
     (i # j) => dbUsers[i].username # dbUsers[j].username

\* Two requests for one username passed the existence test, one of them made the row
\* and the other was turned away by the insert.
C24_Witness ==
  /\ \E k \in 1..Len(serverLog) : serverLog[k] = "Registration error"
  /\ Len(dbUsers) > 0
  /\ requests = << >>

(***************************************************************************)
(* POST /login on its own: a table left by up to two registrations, and    *)
(* requests naming a user or nobody, with a password or none.              *)
(***************************************************************************)
InitLogin ==
  /\ IdleBench
  /\ IdleUnlock
  /\ IdleSys
  /\ IdleCodec
  /\ IdleFlight
  /\ \E first \in RaceBodies, second \in RaceBodies, n \in 0..2 :
       endpoint =
         [users |-> IF n = 0 THEN << >>
                    ELSE IF n = 1 THEN RegisterHandler(<< >>, first).users
                    ELSE RegisterHandler(RegisterHandler(<< >>, first).users, second).users,
          body |-> [username |-> "", password |-> << >>],
          status |-> 0, token |-> NoToken, user |-> NoRow]

\* router.post('/login').
PostLogin ==
  /\ \E username \in Clients \cup { "" }, password \in Passwords \cup { << >> } :
       \E body \in { [username |-> username, password |-> password] } :
         \E resp \in { LoginHandler(endpoint.users, body) } :
           endpoint' = [users |-> endpoint.users, body |-> body,
                        status |-> resp.status, token |-> resp.token, user |-> resp.user]
  /\ UNCHANGED << benchVars, unlockVars, sysVars, codecVars, flightVars >>

SpecLogin == InitLogin /\ [][PostLogin]_vars

\* C25: a login request with an unknown username or with a password that
\* does not match the stored hash is answered with an error that carries no
\* token and no wrapped private key, iv or salt; wrapped key material comes
\* only with a token, in the answer to a request whose password matches.
C25_NoKeysWithoutPassword ==
  (endpoint.status # 0) =>
    \E known \in { SelectByUsername(endpoint.users, endpoint.body.username) } :
      /\ (Len(known) = 0
          \/ ~BcryptCompare(endpoint.body.password, known[1].passwordHash)) =>
            /\ endpoint.status >= 400
            /\ endpoint.token = NoToken
            /\ endpoint.user = NoRow
      /\ (endpoint.user # NoRow) =>
            /\ endpoint.status = 200
            /\ endpoint.token # NoToken
            /\ Len(known) > 0
            /\ BcryptCompare(endpoint.body.password, known[1].passwordHash)
            /\ endpoint.user.encryptedPrivateKey = known[1].encryptedPrivateKey

\* A request naming a registered user with another password was refused.
C25_Witness ==
  /\ endpoint.status = 401
  /\ Len(SelectByUsername(endpoint.users, endpoint.body.username)) > 0
  /\ endpoint.body.password # << >>

(***************************************************************************)
(* Properties of the relay on its own (SpecServer).                        *)
(***************************************************************************)
\* The pending handlers left when the i-th one finishes.
PendingWithout(i) ==
  SubSeq(pending, 1, i - 1) \o SubSeq(pending, i + 1, Len(pending))

\* C22: a sendMessage event arriving on a socket that has no entry in
\* connectedUsers stores no message and broadcasts nothing: the step that
\* takes such an event off the wire leaves the message table, every inbox
\* and the handlers awaiting an insert as they were.
C22_UnregisteredSocketIgnored ==
  [][ (/\ Len(wire) > 0
       /\ wire' = Tail(wire)
       /\ Head(wire).socket \notin DOMAIN connectedUsers) =>
         /\ dbMessages' = dbMessages
         /\ inbox' = inbox
         /\ pending' = pending ]_vars

\* The relay turned an event away, and nothing is stored or awaiting.
C22_Witness ==
  /\ \E k \in 1..Len(serverLog) : serverLog[k] = "unauthorized"
  /\ sockets # {}
  /\ wire = << >>
  /\ pending = << >>
  /\ dbMessages = << >>

\* C23: the senderId of every stored message is the user id most recently
\* registered on the socket that sent it, read when the sendMessage event is
\* handled, and never the one named in the event: a handler that starts
\* keeps the event with connectedUsers' value for its socket, and a row that
\* is stored carries the sender and the fields one awaiting handler kept.
C23_SenderFromRegistration ==
  [][ /\ (Len(pending') > Len(pending)) =>
           /\ Len(wire) > 0
           /\ Head(wire).socket \in DOMAIN connectedUsers
           /\ pending' = Append(pending,
                           [socket |-> Head(wire).socket,
                            senderId |-> connectedUsers[Head(wire).socket],
                            data |-> Head(wire).data])
      /\ (dbMessages' # dbMessages) =>
           /\ Len(dbMessages') = Len(dbMessages) + 1
           /\ \E i \in 1..Len(pending) :
                /\ pending' = PendingWithout(i)
                /\ dbMessages'[Len(dbMessages')].senderId = pending[i].senderId
                /\ SentFields(dbMessages'[Len(dbMessages')])
                     = IF signedSchema THEN SentFields(pending[i].data)
                       ELSE SentFields([pending[i].data EXCEPT !.signature = Undefined]) ]_vars

\* A stored message whose sender is not the one every event names.
C23_Witness ==
  \E k \in 1..Len(dbMessages) :
     dbMessages[k].senderId # Len(RegisteredUsers)

\* C29: the relay broadcasts only a message whose insert went through, and
\* only after it: an inbox grows only in the step that appends a row to the
\* table, and by that row; every event in an inbox is a row of the table;
\* a handler whose insert fails leaves every inbox as it was.
C29_BroadcastAfterInsert ==
  [][ /\ \A c \in Clients :
           (Len(inbox'[c]) > Len(inbox[c])) =>
              /\ Len(dbMessages') = Len(dbMessages) + 1
              /\ inbox'[c] = Append(inbox[c], dbMessages'[Len(dbMessages')])
      /\ \A c \in Clients : \A j \in 1..Len(inbox'[c]) :
           \E k \in 1..Len(dbMessages') : inbox'[c][j] = dbMessages'[k]
      /\ (Len(pending') < Len(pending) /\ dbMessages' = dbMessages) =>
           inbox' = inbox ]_vars

\* An insert failed while both sockets were connected, and no inbox holds
\* anything.
C29_Witness ==
  /\ \E k \in 1..Len(serverLog) : serverLog[k] = "not saved"
  /\ sockets = Clients
  /\ dbMessages = << >>
  /\ \A c \in Clients : inbox[c] = << >>

\* C30: connectedUsers has an entry only for sockets that are connected and
\* sent registerUser, a socket's entry goes with its disconnect, and a
\* message being stored when its socket disconnects keeps the sender read
\* before: after every step the sockets of the map are connected ones; an
\* entry appears or changes only for a socket connected before and after the
\* step; a socket that leaves has no entry; and a handler whose socket has
\* no entry any more stores its row with the sender it read.
C30_EntriesOnlyForConnected ==
  [][ /\ DOMAIN connectedUsers' \subseteq sockets'
      /\ \A s \in DOMAIN connectedUsers' :
           (s \notin DOMAIN connectedUsers \/ connectedUsers'[s] # connectedUsers[s]) =>
              s \in sockets
      /\ \A s \in sockets \ sockets' : s \notin DOMAIN connectedUsers'
      /\ \A i \in 1..Len(pending) :
           (/\ pending' = PendingWithout(i)
            /\ pending[i].socket \notin DOMAIN connectedUsers
            /\ dbMessages' # dbMessages) =>
              dbMessages'[Len(dbMessages')].senderId = pending[i].senderId ]_vars

\* A handler awaits its insert and its socket has gone.
C30_Witness ==
  \E i \in 1..Len(pending) :
     /\ pending[i].socket \notin sockets
     /\ pending[i].socket \notin DOMAIN connectedUsers
     /\ ForeignKeysHold(dbUsers, pending[i].senderId, pending[i].data.receiverId)
     /\ pending[i].data.signature # Undefined

(***************************************************************************)
(* Properties of the chat screen next to the relay (SpecRelay, SpecUnlock).*)
(***************************************************************************)
\* C26: however live receiveMessage events and history loads of the
\* selected conversation interleave, a browser's list never holds two
\* entries with the id of one stored message.
C26_NoStoredIdTwice ==
  \A c \in Clients :
     \A i \in 1..Len(app[c].messages), j \in 1..Len(app[c].messages) :
        (/\ i # j
         /\ \E k \in 1..Len(dbMessages) : dbMessages[k].id = app[c].messages[i].id)
        => app[c].messages[i].id # app[c].messages[j].id

\* C27: a login whose unwrap phase fails, at the key-agreement key or at the
\* signing key, leaves no unwrapped private key in localStorage and sets up
\* no session: no token is stored and the chat screen is not entered.
C27_FailedUnlockLeavesNothing ==
  (unlock.how \in { "login", "damaged" } /\ unlock.status = 200 /\ ~unlock.authed) =>
     /\ ~LsHas(unlock.ls, KeyPriv(vault.user.username))
     /\ ~LsHas(unlock.ls, KeySignPriv(vault.user.username))
     /\ ~LsHas(unlock.session, KeyToken)
     /\ unlock.app = NoApp

\* C28: every message a browser lists as the user's own sent message was
\* encrypted and emitted as a sendMessage event, and an input for which the
\* key lookup, the derivation or the encryption fails leaves no own message
\* in the list: a step that adds an own message under a temporary id to a
\* browser's list also puts an event of that browser, for the same receiver,
\* on the wire.
C28_OwnMessagesWereEmitted ==
  [][ \A c \in Clients :
        (/\ Len(app'[c].messages) = Len(app[c].messages) + 1
         /\ app'[c].messages[Len(app'[c].messages)].isOwnMessage
         /\ app'[c].messages[Len(app'[c].messages)].id.kind = "temp") =>
           /\ Len(wire') = Len(wire) + 1
           /\ wire'[Len(wire')].socket = c
           /\ wire'[Len(wire')].data.receiverId
                = app'[c].messages[Len(app'[c].messages)].receiverId ]_vars

====
